---------------------------- MODULE Spec2Model ----------------------------
(***************************************************************************)
(* A model of bpgsql.py, the barebones PostgreSQL (protocol 2.0) client.   *)
(*                                                                         *)
(* The connection object PGClient is the state; every public method and    *)
(* every packet handler _pkt_<c> is an action.  The server is an           *)
(* environment that writes messages to the socket, which reach the client  *)
(* in one or two chunks, and may close the connection at any time.  Bytes  *)
(* are integers 0..255, byte strings are sequences of bytes.               *)
(*                                                                         *)
(* Python values that may be None are modelled as sequences of length at   *)
(* most one: None is << >> and a value v is << v >>.  A Python dict is a   *)
(* function whose DOMAIN is its set of keys.                               *)
(***************************************************************************)
EXTENDS Integers, Sequences, FiniteSets, TLC

(***************************************************************************)
(* Bounds of the model.                                                    *)
(***************************************************************************)
\* how many bursts of messages the server writes in one behaviour
MaxMsgs == 4
\* how many public operations the caller starts in one behaviour
MaxOps == 2
\* the server writes a burst only while at most this many bytes wait unread
MaxUnread == 1

(***************************************************************************)
(* Message tags: the byte values of the characters the dispatcher looks    *)
(* up as _pkt_<c>, and of the request tags the client sends.               *)
(***************************************************************************)
TagA == 65
TagB == 66
TagC == 67
TagD == 68
TagE == 69
TagG == 71
TagH == 72
TagI == 73
TagK == 75
TagN == 78
TagP == 80
TagR == 82
TagT == 84
TagV == 86
TagZ == 90
TagQ == 81
TagF == 70
TagX == 88
\* ord('0'), the sub-tag that ends a function call response
Sub0 == 48
\* a byte for which PGClient defines no _pkt_ method
TagUnknown == 63

KnownTags == {TagA, TagB, TagC, TagD, TagE, TagG, TagH, TagI, TagK, TagN,
              TagP, TagR, TagT, TagV, TagZ}

(***************************************************************************)
(* Python optional values.                                                 *)
(***************************************************************************)
None == << >>
Some(v) == << v >>
IsNone(x) == x = << >>
Val(x) == x[1]

(***************************************************************************)
(* Sequence helpers.                                                       *)
(***************************************************************************)
Take(s, n) == SubSeq(s, 1, n)
Drop(s, n) == SubSeq(s, n + 1, Len(s))
Last(s) == s[Len(s)]
Front(s) == SubSeq(s, 1, Len(s) - 1)
Min(a, b) == IF a <= b THEN a ELSE b

(***************************************************************************)
(* struct.pack / struct.unpack, network byte order, signed.                *)
(***************************************************************************)
Pack_i(n) == << (n \div 16777216) % 256, (n \div 65536) % 256,
                (n \div 256) % 256, n % 256 >>
Pack_h(n) == << (n \div 256) % 256, n % 256 >>
Unpack_i(b) ==
    (IF b[1] >= 128 THEN b[1] - 256 ELSE b[1]) * 16777216
      + b[2] * 65536 + b[3] * 256 + b[4]
Unpack_h(b) == (IF b[1] >= 128 THEN b[1] - 256 ELSE b[1]) * 256 + b[2]

(***************************************************************************)
(* The exception hierarchy of the module (DB-API 2.0).                     *)
(***************************************************************************)
BaseOf(c) ==
    CASE c = "InterfaceError" -> "Error"
      [] c = "DatabaseError" -> "Error"
      [] c = "InternalError" -> "DatabaseError"
      [] c = "OperationalError" -> "DatabaseError"
      [] c = "ProgrammingError" -> "DatabaseError"
      [] c = "IntegrityError" -> "DatabaseError"
      [] c = "DataError" -> "DatabaseError"
      [] c = "NotSupportedError" -> "DatabaseError"
      [] c = "PostgreSQL_Timeout" -> "InterfaceError"
      [] OTHER -> "StandardError"

\* issubclass(c, d) for the classes above; every other exception a handler
\* can raise (KeyError, TypeError, AttributeError) derives from StandardError
IsSubclass(c, d) ==
    \/ c = d
    \/ BaseOf(c) = d
    \/ BaseOf(BaseOf(c)) = d
    \/ BaseOf(BaseOf(BaseOf(c))) = d


(***************************************************************************)
(* The state.                                                              *)
(***************************************************************************)
VARIABLES
    \* ---- the fields of PGClient ----
    socket,         \* "none" (None), "open" or "closed"
    address,        \* None, or what socket.connect was called with
    input_buffer,   \* bytes received and not yet consumed
    authenticated,  \* 0 or 1
    ready,          \* 0 or 1
    result,         \* None, or the list of result blocks (dicts)
    notify_queue,   \* list of (name, pid)
    func_result,    \* None or the payload of the last V message
    field_count,    \* None while the attribute does not exist, else nFields
    backend_key,    \* None or (pid, key)
    passwd, userid, \* set by connect
    lo_funcs,       \* the large-object catalog: function name -> oid
    stdin,          \* the copy-in source: the lines readline() has yet to give
    stdout,         \* the copy-out sink: the bytes written to it
    \* ---- the peer ----
    wire,           \* bytes that arrived at the socket, not yet recv'd
    srvPending,     \* bytes the server has written that are still in flight
    peerClosed,     \* the server closed the connection
    nsent,          \* bursts written by the server so far
    \* ---- the caller ----
    op,             \* the public method that is running, or "none"
    pc,             \* where that method is
    timeout,        \* the argument of the running wait_for_notify, else 0
    outcome,        \* how the last public method ended
    nops,           \* public methods started so far
    dsn,            \* None, or the connection string the caller holds
    lobj,           \* None, or the _LargeObject made by the last lo_open
    callargs,       \* the arguments of the running large-object method
    cursor,         \* the Cursor the caller holds
    wrapper,        \* the state of the ConnectionWrapper of the Django backend
    \* ---- observation ----
    sent            \* what the running (or last) method passed to socket.send

client == << socket, address, input_buffer, authenticated, ready, result,
             notify_queue, func_result, field_count, backend_key, passwd,
             userid, lo_funcs, stdin, stdout >>
peer == << wire, srvPending, peerClosed, nsent >>
caller == << op, pc, timeout, outcome, nops, dsn, lobj, callargs, cursor,
             wrapper >>
observed == << sent >>
vars == << client, peer, caller, observed >>

(***************************************************************************)
(* Reading from the stream.  A handler runs to its end without anybody     *)
(* else touching the connection, so it is one step: it sees the bytes of   *)
(* input_buffer followed by the bytes that reached the socket, blocks      *)
(* (is not enabled) while its message is incomplete and the peer has not   *)
(* closed, and fails once the peer has.  ReadBytes and ReadString are what *)
(* __read_bytes and __read_string return on such a stream: ok says whether *)
(* the read can be satisfied, n how many bytes it consumes.                *)
(* Lengths are taken non-negative, as the messages of this model have them.*)
(***************************************************************************)
Stream == input_buffer \o wire

ReadBytes(s, nBytes) ==
    IF Len(s) >= nBytes
    THEN [ok |-> TRUE, val |-> Take(s, nBytes), rest |-> Drop(s, nBytes), n |-> nBytes]
    ELSE [ok |-> FALSE, val |-> << >>, rest |-> s, n |-> 0]

ReadString(s, terminator) ==
    LET hits == {i \in 1..Len(s) : s[i] = terminator} IN
    IF hits = {}
    THEN [ok |-> FALSE, val |-> << >>, rest |-> s, n |-> 0]
    ELSE LET i == CHOOSE k \in hits : \A j \in hits : k <= j IN
         [ok |-> TRUE, val |-> Take(s, i - 1), rest |-> Drop(s, i), n |-> i]

\* a handler consumed n bytes of the stream: socket.recv was called only if
\* the buffer did not hold them, and then took what had arrived
Consume(n) ==
    IF n <= Len(input_buffer)
    THEN /\ input_buffer' = Drop(input_buffer, n)
         /\ wire' = wire
    ELSE /\ input_buffer' = Drop(Stream, n)
         /\ wire' = << >>

\* a read failed after n bytes were consumed: recv returned '' after
\* everything that had arrived was appended to the buffer
ConsumeClosed(n) ==
    /\ input_buffer' = Drop(Stream, n)
    /\ wire' = << >>

(***************************************************************************)
(* What each handler reads after the tag byte.  Every Read_ operator gives *)
(* ok (the whole payload is there), used (bytes consumed by the reads that *)
(* completed) and the values unpacked.                                     *)
(***************************************************************************)

\* handlers C, E, I, N, P: one null-terminated string
Read_str(s) ==
    LET a == ReadString(s, 0) IN
    [ok |-> a.ok, used |-> a.n, str |-> a.val]

\* _pkt_A: pid = unpack('!i', read_bytes(4)); name = read_string()
Read_A(s) ==
    LET a == ReadBytes(s, 4)
        b == IF a.ok THEN ReadString(a.rest, 0) ELSE ReadBytes(s, Len(s) + 1)
    IN  [ok |-> a.ok /\ b.ok, used |-> a.n + b.n,
         pid |-> IF a.ok THEN Unpack_i(a.val) ELSE 0, name |-> b.val]

\* _pkt_K: unpack('!ii', read_bytes(8))
Read_K(s) ==
    LET a == ReadBytes(s, 8) IN
    [ok |-> a.ok, used |-> a.n,
     pid |-> IF a.ok THEN Unpack_i(Take(a.val, 4)) ELSE 0,
     key |-> IF a.ok THEN Unpack_i(Drop(a.val, 4)) ELSE 0]

\* _pkt_R: the code, then the salt that codes 4 and 5 read
Read_R(s) ==
    LET a == ReadBytes(s, 4)
        code == IF a.ok THEN Unpack_i(a.val) ELSE 0
        saltlen == IF code = 4 THEN 2 ELSE IF code = 5 THEN 4 ELSE 0
        b == IF a.ok THEN ReadBytes(a.rest, saltlen) ELSE ReadBytes(s, Len(s) + 1)
    IN  [ok |-> a.ok /\ b.ok, used |-> a.n + b.n, code |-> code, salt |-> b.val]

\* _pkt_T: nFields, then per field a name and 10 bytes (oid, size, modifier)
RECURSIVE ReadFields(_, _)
ReadFields(s, k) ==
    IF k <= 0 THEN [ok |-> TRUE, used |-> 0, descr |-> << >>]
    ELSE LET a == ReadString(s, 0)
             b == IF a.ok THEN ReadBytes(a.rest, 10) ELSE ReadBytes(s, Len(s) + 1)
         IN  IF ~(a.ok /\ b.ok)
             THEN [ok |-> FALSE, used |-> a.n + b.n, descr |-> << >>]
             ELSE LET r == ReadFields(b.rest, k - 1)
                      f == << a.val, Unpack_i(SubSeq(b.val, 1, 4)),
                              Unpack_h(SubSeq(b.val, 5, 6)),
                              Unpack_i(SubSeq(b.val, 7, 10)) >>
                  IN  [ok |-> r.ok, used |-> a.n + b.n + r.used,
                       descr |-> << f >> \o r.descr]

Read_T(s) ==
    LET a == ReadBytes(s, 2)
        nFields == IF a.ok THEN Unpack_h(a.val) ELSE 0
        r == IF a.ok THEN ReadFields(a.rest, nFields)
             ELSE [ok |-> FALSE, used |-> 0, descr |-> << >>]
    IN  [ok |-> a.ok /\ r.ok, used |-> a.n + r.used, nFields |-> nFields,
         descr |-> r.descr]

\* (the bits of a byte, least significant first)
Bits_LSBFirst(b) == [i \in 1..8 |-> (b \div (2 ^ (i - 1))) % 2]

\* the eight bits of a byte, most significant first
Bits(b) == [i \in 1..8 |-> (b \div (2 ^ (8 - i))) % 2]

RECURSIVE BitsOf(_)
BitsOf(bytes) == IF bytes = << >> THEN << >> ELSE Bits(Head(bytes)) \o BitsOf(Tail(bytes))

\* __read_row, the loop over the fields: null_bits is the sequence of bits of
\* the bytes read, field_mask the position of its single set bit (it starts
\* at the leftmost bit and moves right by one per field)
RECURSIVE ReadRowFields(_, _, _, _, _)
ReadRowFields(s, null_bits, field_mask, left, ascii) ==
    IF left <= 0 THEN [ok |-> TRUE, used |-> 0, row |-> << >>]
    ELSE IF null_bits[field_mask] = 1
    THEN LET a == ReadBytes(s, 4)
             field_size == IF a.ok
                           THEN Unpack_i(a.val) - (IF ascii = 1 THEN 4 ELSE 0)
                           ELSE 0
             b == IF a.ok THEN ReadBytes(a.rest, field_size)
                  ELSE ReadBytes(s, Len(s) + 1)
         IN  IF ~(a.ok /\ b.ok)
             THEN [ok |-> FALSE, used |-> a.n + b.n, row |-> << >>]
             ELSE LET r == ReadRowFields(b.rest, null_bits, field_mask + 1,
                                         left - 1, ascii)
                  IN  [ok |-> r.ok, used |-> a.n + b.n + r.used,
                       row |-> << Some(b.val) >> \o r.row]
    ELSE LET r == ReadRowFields(s, null_bits, field_mask + 1, left - 1, ascii)
         IN  [ok |-> r.ok, used |-> r.used, row |-> << None >> \o r.row]

\* __read_row up to the append: fc is self.__field_count
Read_row(s, fc, ascii) ==
    LET null_byte_count == (fc + 7) \div 8
        a == ReadBytes(s, IF null_byte_count > 0 THEN null_byte_count ELSE 0)
        r == IF a.ok THEN ReadRowFields(a.rest, BitsOf(a.val), 1, fc, ascii)
             ELSE [ok |-> FALSE, used |-> 0, row |-> << >>]
    IN  [ok |-> a.ok /\ r.ok, used |-> a.n + r.used, row |-> r.row]

\* _pkt_V: func_result = None, then sub-tags until '0'; fr is func_result as
\* the handler leaves it, bad says that it met an unexpected byte
RECURSIVE Read_Vloop(_, _)
Read_Vloop(s, fr) ==
    LET c == ReadBytes(s, 1) IN
    IF ~c.ok THEN [ok |-> FALSE, used |-> 0, fr |-> fr, bad |-> FALSE]
    ELSE IF c.val[1] = Sub0 THEN [ok |-> TRUE, used |-> 1, fr |-> fr, bad |-> FALSE]
    ELSE IF c.val[1] = TagG
    THEN LET a == ReadBytes(c.rest, 4)
             result_size == IF a.ok THEN Unpack_i(a.val) ELSE 0
             b == IF a.ok THEN ReadBytes(a.rest, result_size)
                  ELSE ReadBytes(s, Len(s) + 1)
         IN  IF ~(a.ok /\ b.ok)
             THEN [ok |-> FALSE, used |-> 1 + a.n + b.n, fr |-> fr, bad |-> FALSE]
             ELSE LET r == Read_Vloop(b.rest, Some(b.val))
                  IN  [ok |-> r.ok, used |-> 1 + a.n + b.n + r.used,
                       fr |-> r.fr, bad |-> r.bad]
    ELSE [ok |-> TRUE, used |-> 1, fr |-> fr, bad |-> TRUE]

Read_V(s) == Read_Vloop(s, None)

(***************************************************************************)
(* Result blocks: Python dicts with the keys 'description', 'rows',        *)
(* 'completed' and 'error'.                                                *)
(***************************************************************************)
EmptyDict == << >>
SetKey(d, k, v) == (k :> v) @@ d
HasKey(d, k) == k \in DOMAIN d

\* (the same on the first block)
SetInLast_First(blocks, k, v) ==
    [blocks EXCEPT ![1] = SetKey(blocks[1], k, v)]

\* self.__result[-1][k] = v
SetInLast(blocks, k, v) ==
    [blocks EXCEPT ![Len(blocks)] = SetKey(blocks[Len(blocks)], k, v)]

\* the truth value of self.__result: None and [] are false
Truthy(r) == ~IsNone(r) /\ Val(r) # << >>

(***************************************************************************)
(* The caller's side of a step of the dispatcher.                          *)
(***************************************************************************)
\* the argument an exception was constructed with: the text of its message
\* and the value formatted into it (the code of an R message, the tag byte,
\* the string of an E message)
NoArgs == [text |-> "", data |-> << >>]
Args(text, data) == [text |-> text, data |-> data]

NoOutcome ==
    [op |-> "none", kind |-> "none", exc |-> "", args |-> NoArgs, value |-> None]

\* the methods of _LargeObject that the caller calls after lo_open: close,
\* read, seek, tell and write
LobjOps == {"lobj_close", "lobj_read", "lobj_seek", "lobj_tell", "lobj_write"}

\* the methods that work on large objects: lo_create, lo_open and lo_unlink
\* of PGClient, those of _LargeObject and its __del__
LoOps == {"lo_create", "lo_open", "lo_unlink", "lobj_del"} \cup LobjOps

\* a _LargeObject as __init__ makes it.  client tells whether self.__client
\* is the connection (else it is None), fd is self.__fd; ref tells who refers
\* to the object: "local" the frame of lo_open, "caller" the caller, "dead"
\* nobody, its __del__ has run; closes counts the lo_close calls sent for it,
\* closed tells that a close() of the caller has ended on it
LargeObject(fd) ==
    [client |-> TRUE, fd |-> Some(fd), ref |-> "local", closes |-> 0,
     closed |-> FALSE]

\* close as it would be without `self.__client = self.__fd = None`
Invalidated_Not(o) == o

\* self.__client = self.__fd = None
Invalidated(o) == [o EXCEPT !.client = FALSE, !.fd = None]

\* close as it would be without its `finally` clause: the handle is
\* invalidated only when lo_close returns
LobjAfter_NoFinally(name, raised) ==
    IF name = "lobj_close"
    THEN Some([(IF raised THEN Val(lobj) ELSE Invalidated(Val(lobj)))
                  EXCEPT !.closed = TRUE])
    ELSE IF name = "lobj_del"
    THEN Some([(IF raised THEN Val(lobj) ELSE Invalidated(Val(lobj)))
                  EXCEPT !.ref = "dead"])
    ELSE IF name = "lo_open" /\ ~raised
    THEN Some([Val(lobj) EXCEPT !.ref = "caller"])
    ELSE lobj

\* the _LargeObject when method `name` ends, by raising or not: close ends
\* in its `finally`, __del__ is close when it calls it, lo_open returns the
\* object to the caller
LobjAfter(name, raised) ==
    IF name = "lobj_close"
    THEN Some([Invalidated(Val(lobj)) EXCEPT !.closed = TRUE])
    ELSE IF name = "lobj_del"
    THEN Some([Invalidated(Val(lobj)) EXCEPT !.ref = "dead"])
    ELSE IF name = "lo_open" /\ ~raised
    THEN Some([Val(lobj) EXCEPT !.ref = "caller"])
    ELSE lobj

\* the method is inside self.__read_response(): connect, execute and funcall
\* call it while not self.__ready, wait_for_notify after __wait_response; the
\* large-object methods are inside the execute of __lo_init or inside funcall
Reading ==
    \/ op \in {"connect", "execute", "funcall"} \cup LoOps /\ ready = 0
    \/ op = "wait_for_notify" /\ pc = "read"

\* __read_response read the tag byte `tag`
Handles(tag) == Reading /\ Stream # << >> /\ Head(Stream) = tag
Payload == Tail(Stream)

\* the handler returned: the method goes on with its loop
Continue ==
    /\ op' = op
    /\ pc' = IF op = "wait_for_notify" THEN "check" ELSE pc
    /\ UNCHANGED << timeout, outcome, nops, dsn, lobj, callargs,
                    cursor, wrapper >>

\* an exception leaves the method; no method of PGClient catches one
RaiseArgs(exc, args) ==
    /\ op' = "none"
    /\ pc' = "idle"
    /\ outcome' = [op |-> op, kind |-> "raise", exc |-> exc, args |-> args,
                   value |-> None]
    /\ timeout' = 0
    /\ lobj' = LobjAfter(op, TRUE)
    /\ UNCHANGED << nops, dsn, callargs, cursor, wrapper >>

Raise(exc) == RaiseArgs(exc, NoArgs)

\* the method returns v, and leaves the caller's Cursor as c
ReturnBound(v, c) ==
    /\ op' = "none"
    /\ pc' = "idle"
    /\ outcome' = [op |-> op, kind |-> "return", exc |-> "", args |-> NoArgs,
                   value |-> v]
    /\ timeout' = 0
    /\ lobj' = LobjAfter(op, FALSE)
    /\ cursor' = c
    /\ wrapper' = wrapper
    /\ UNCHANGED << nops, dsn, callargs >>

Return(v) == ReturnBound(v, cursor)

\* what every handler does besides its own assignments: it consumed the tag
\* and `used` bytes, and ended normally (exc = "") or by raising exc(args)
HandledArgs(tag, used, exc, args) ==
    /\ Consume(1 + used)
    /\ IF exc = "" THEN Continue ELSE RaiseArgs(exc, args)
    /\ UNCHANGED << socket, address, lo_funcs, stdin, stdout,
                    passwd, userid, srvPending, peerClosed, nsent >>

Handled(tag, used, exc) == HandledArgs(tag, used, exc, NoArgs)

(***************************************************************************)
(* The packet handlers.                                                    *)
(***************************************************************************)

\* Notification Response
pkt_A ==
    LET r == Read_A(Payload) IN
    /\ Handles(TagA) /\ r.ok
    /\ notify_queue' = Append(notify_queue, << r.name, r.pid >>)
    /\ Handled(TagA, r.used, "")
    /\ UNCHANGED << authenticated, ready, result, func_result, field_count,
                    backend_key, sent >>

\* (_pkt_C as it would be without `self.__result.append({})`)
pkt_C_NoFreshBlock ==
    LET r == Read_str(Payload) IN
    /\ Handles(TagC) /\ r.ok
    /\ IF IsNone(result)
       THEN /\ result' = result
            /\ Handled(TagC, r.used, "TypeError")
       ELSE /\ result' = Some(SetInLast(Val(result), "completed", r.str))
            /\ Handled(TagC, r.used, "")
    /\ UNCHANGED << authenticated, ready, notify_queue, func_result,
                    field_count, backend_key, sent >>

\* Completed Response: the string is read before self.__result is indexed
pkt_C ==
    LET r == Read_str(Payload) IN
    /\ Handles(TagC) /\ r.ok
    /\ IF IsNone(result)
       THEN /\ result' = result
            /\ Handled(TagC, r.used, "TypeError")
       ELSE /\ result' = Some(Append(SetInLast(Val(result), "completed", r.str),
                                     EmptyDict))
            /\ Handled(TagC, r.used, "")
    /\ UNCHANGED << authenticated, ready, notify_queue, func_result,
                    field_count, backend_key, sent >>

\* _pkt_E as it would be without `self.__result.append({})`
pkt_E_NoFreshBlock ==
    LET r == Read_str(Payload) IN
    /\ Handles(TagE) /\ r.ok
    /\ IF Truthy(result)
       THEN /\ result' = Some(SetInLast(Val(result), "error", r.str))
            /\ Handled(TagE, r.used, "")
       ELSE /\ result' = result
            /\ HandledArgs(TagE, r.used, "DatabaseError", Args("", r.str))
    /\ UNCHANGED << authenticated, ready, notify_queue, func_result,
                    field_count, backend_key, sent >>

\* Error Response
pkt_E ==
    LET r == Read_str(Payload) IN
    /\ Handles(TagE) /\ r.ok
    /\ IF Truthy(result)
       THEN /\ result' = Some(Append(SetInLast(Val(result), "error", r.str),
                                     EmptyDict))
            /\ Handled(TagE, r.used, "")
       ELSE /\ result' = result
            /\ HandledArgs(TagE, r.used, "DatabaseError", Args("", r.str))
    /\ UNCHANGED << authenticated, ready, notify_queue, func_result,
                    field_count, backend_key, sent >>

\* Cursor Response
pkt_P ==
    LET r == Read_str(Payload) IN
    /\ Handles(TagP) /\ r.ok
    /\ IF IsNone(result)
       THEN /\ result' = result
            /\ Handled(TagP, r.used, "TypeError")
       ELSE /\ result' = Some(SetInLast(Val(result), "rows", << >>))
            /\ Handled(TagP, r.used, "")
    /\ UNCHANGED << authenticated, ready, notify_queue, func_result,
                    field_count, backend_key, sent >>

\* (_pkt_T as it would be setting __field_count only while there is none)
pkt_T_FirstCount ==
    LET r == Read_T(Payload) IN
    /\ Handles(TagT) /\ r.ok
    /\ field_count' = IF IsNone(field_count) THEN Some(r.nFields)
                      ELSE field_count
    /\ IF IsNone(result)
       THEN /\ result' = result
            /\ Handled(TagT, r.used, "TypeError")
       ELSE /\ result' = Some(SetInLast(Val(result), "description", r.descr))
            /\ Handled(TagT, r.used, "")
    /\ UNCHANGED << authenticated, ready, notify_queue, func_result,
                    backend_key, sent >>

\* Row Description: __field_count is assigned before self.__result is indexed
pkt_T ==
    LET r == Read_T(Payload) IN
    /\ Handles(TagT) /\ r.ok
    /\ field_count' = Some(r.nFields)
    /\ IF IsNone(result)
       THEN /\ result' = result
            /\ Handled(TagT, r.used, "TypeError")
       ELSE /\ result' = Some(SetInLast(Val(result), "description", r.descr))
            /\ Handled(TagT, r.used, "")
    /\ UNCHANGED << authenticated, ready, notify_queue, func_result,
                    backend_key, sent >>

\* __read_row(ascii) as a whole: AttributeError before anything is read when
\* no T message has set __field_count; after the row is read, TypeError when
\* self.__result is None and KeyError when the block has no 'rows'
ReadRowInto(tag, ascii) ==
    IF IsNone(field_count)
    THEN /\ result' = result
         /\ Handled(tag, 0, "AttributeError")
    ELSE LET r == Read_row(Payload, Val(field_count), ascii) IN
         /\ r.ok
         /\ IF IsNone(result)
            THEN /\ result' = result
                 /\ Handled(tag, r.used, "TypeError")
            ELSE IF ~HasKey(Last(Val(result)), "rows")
            THEN /\ result' = result
                 /\ Handled(tag, r.used, "KeyError")
            ELSE /\ result' = Some(SetInLast(Val(result), "rows",
                                     Append(Last(Val(result))["rows"], r.row)))
                 /\ Handled(tag, r.used, "")

\* _pkt_D as it would be if it read the row as a binary row
pkt_D_AsBinary ==
    /\ Handles(TagD)
    /\ ReadRowInto(TagD, 0)
    /\ UNCHANGED << authenticated, ready, notify_queue, func_result,
                    field_count, backend_key, sent >>

\* ASCII Row
pkt_D ==
    /\ Handles(TagD)
    /\ ReadRowInto(TagD, 1)
    /\ UNCHANGED << authenticated, ready, notify_queue, func_result,
                    field_count, backend_key, sent >>

\* Binary Row
pkt_B ==
    /\ Handles(TagB)
    /\ ReadRowInto(TagB, 0)
    /\ UNCHANGED << authenticated, ready, notify_queue, func_result,
                    field_count, backend_key, sent >>

\* EmptyQuery Response and Notice Response: the string is printed
pkt_I ==
    LET r == Read_str(Payload) IN
    /\ Handles(TagI) /\ r.ok
    /\ Handled(TagI, r.used, "")
    /\ UNCHANGED << authenticated, ready, result, notify_queue, func_result,
                    field_count, backend_key, sent >>

pkt_N ==
    LET r == Read_str(Payload) IN
    /\ Handles(TagN) /\ r.ok
    /\ Handled(TagN, r.used, "")
    /\ UNCHANGED << authenticated, ready, result, notify_queue, func_result,
                    field_count, backend_key, sent >>

\* Backend Key data
pkt_K ==
    LET r == Read_K(Payload) IN
    /\ Handles(TagK) /\ r.ok
    /\ backend_key' = Some(<< r.pid, r.key >>)
    /\ Handled(TagK, r.used, "")
    /\ UNCHANGED << authenticated, ready, result, notify_queue, func_result,
                    field_count, sent >>

\* (_pkt_V as it would be keeping the value it had when '0' comes first)
pkt_V_KeepsValue ==
    LET r == Read_Vloop(Payload, func_result) IN
    /\ Handles(TagV) /\ r.ok
    /\ func_result' = r.fr
    /\ HandledArgs(TagV, r.used, IF r.bad THEN "InterfaceError" ELSE "",
                   Args("Unexpected byte in Function call reponse", << >>))
    /\ UNCHANGED << authenticated, ready, result, notify_queue, field_count,
                    backend_key, sent >>

\* Function call response
pkt_V ==
    LET r == Read_V(Payload) IN
    /\ Handles(TagV) /\ r.ok
    /\ func_result' = r.fr
    /\ HandledArgs(TagV, r.used, IF r.bad THEN "InterfaceError" ELSE "",
                   Args("Unexpected byte in Function call reponse", << >>))
    /\ UNCHANGED << authenticated, ready, result, notify_queue, field_count,
                    backend_key, sent >>

\* Ready for Query
pkt_Z ==
    /\ Handles(TagZ)
    /\ ready' = 1
    /\ Handled(TagZ, 0, "")
    /\ UNCHANGED << authenticated, result, notify_queue, func_result,
                    field_count, backend_key, sent >>

(***************************************************************************)
(* Copy in and copy out.  The source of a copy in is a file: stdin holds   *)
(* the lines readline() has yet to return, each with its '\n' but possibly *)
(* the last.  The sink of a copy out is stdout, the bytes written to it.   *)
(***************************************************************************)
\* the two characters '\.'
Sentinel == << 92, 46 >>

\* the loop of _pkt_G as it would be going on after the line '\.\n'
RECURSIVE CopyInLoop_ReadsOn(_, _, _)
CopyInLoop_ReadsOn(src, sends, lastline) ==
    IF src = << >>
    THEN [rest |-> src, sends |-> sends, lastline |-> lastline]
    ELSE IF Head(src) = Sentinel \o << 10 >>
    THEN CopyInLoop_ReadsOn(Tail(src), sends, lastline)
    ELSE CopyInLoop_ReadsOn(Tail(src), Append(sends, Head(src)),
                            Some(Head(src)))

\* the loop of _pkt_G over the lines src: rest is what the source still
\* holds afterwards, sends what went to __send, lastline the last line sent
RECURSIVE CopyInLoop(_, _, _)
CopyInLoop(src, sends, lastline) ==
    IF src = << >>
    THEN [rest |-> src, sends |-> sends, lastline |-> lastline]
    ELSE IF Head(src) = Sentinel \o << 10 >>
    THEN [rest |-> Tail(src), sends |-> sends, lastline |-> lastline]
    ELSE CopyInLoop(Tail(src), Append(sends, Head(src)), Some(Head(src)))

\* what _pkt_G passes to self.__send: the lines, and '\n' when the last of
\* them has none
CopyInSends(src) ==
    LET r == CopyInLoop(src, << >>, None) IN
    IF ~IsNone(r.lastline) /\ Last(Val(r.lastline)) # 10
    THEN Append(r.sends, << 10 >>)
    ELSE r.sends

\* CopyIn Response: the lines of the source up to '\.\n' or its end go to
\* the server; then comes `self.send(...)`, and PGClient has no attribute
\* send: AttributeError
pkt_G ==
    /\ Handles(TagG)
    /\ stdin' = CopyInLoop(stdin, << >>, None).rest
    /\ sent' = sent \o CopyInSends(stdin)
    /\ Consume(1)
    /\ RaiseArgs("AttributeError", Args("send", << >>))
    /\ UNCHANGED << socket, address, authenticated, ready, result,
                    notify_queue, func_result, field_count, backend_key,
                    passwd, userid, lo_funcs, stdout, srvPending, peerClosed,
                    nsent >>

\* the loop of _pkt_H on the stream s: ok says that the line '\.' is there,
\* used counts the bytes of the lines read, out is what was written
RECURSIVE Read_Hloop(_, _, _)
Read_Hloop(s, used, out) ==
    LET r == ReadString(s, 10) IN
    IF ~r.ok THEN [ok |-> FALSE, used |-> used, out |-> out]
    ELSE IF r.val = Sentinel
    THEN [ok |-> TRUE, used |-> used + r.n, out |-> out]
    ELSE Read_Hloop(r.rest, used + r.n, out \o r.val \o << 10 >>)

Read_H(s) == Read_Hloop(s, 0, << >>)

\* _pkt_H as it would be writing the line '\.' like any other
pkt_H_WritesSentinel ==
    LET r == Read_H(Payload) IN
    /\ Handles(TagH)
    /\ r.ok
    /\ stdout' = stdout \o r.out \o Sentinel \o << 10 >>
    /\ Consume(1 + r.used)
    /\ Continue
    /\ UNCHANGED << socket, address, authenticated, ready, result,
                    notify_queue, func_result, field_count, backend_key,
                    passwd, userid, lo_funcs, stdin, srvPending, peerClosed,
                    nsent, sent >>

\* CopyOut Response: lines up to the line '\.' go to the sink
pkt_H ==
    LET r == Read_H(Payload) IN
    /\ Handles(TagH)
    /\ r.ok
    /\ stdout' = stdout \o r.out
    /\ Consume(1 + r.used)
    /\ Continue
    /\ UNCHANGED << socket, address, authenticated, ready, result,
                    notify_queue, func_result, field_count, backend_key,
                    passwd, userid, lo_funcs, stdin, srvPending, peerClosed,
                    nsent, sent >>

(***************************************************************************)
(* Authentication.  md5 and crypt are library functions; the model keeps   *)
(* their shape: a digest of 16 bytes that depends on every byte of its     *)
(* input and on their order, printed as 32 lower-case hex digits, and a    *)
(* crypt result that starts with its salt.                                 *)
(***************************************************************************)
RECURSIVE Mix(_, _, _)
Mix(x, i, j) ==
    IF j > Len(x) THEN (31 * i + Len(x)) % 256
    ELSE (x[j] * (i + j) + 7 * Mix(x, i, j + 1)) % 256

Md5Digest(x) == [i \in 1..16 |-> Mix(x, i, 1)]
HexChar(n) == IF n < 10 THEN 48 + n ELSE 87 + n
HexOf(d) == [k \in 1..(2 * Len(d)) |->
               HexChar(IF k % 2 = 1 THEN d[(k + 1) \div 2] \div 16
                                    ELSE d[k \div 2] % 16)]
\* md5.new(x).hexdigest()
Md5Hex(x) == HexOf(Md5Digest(x))
\* crypt.crypt(word, salt)
Crypt(word, salt) == salt \o SubSeq(Md5Hex(salt \o word), 1, 11)

\* code 3: pack('!i', len(passwd)+5) + passwd + '\0'
CleartextResponse(pw) == Pack_i(Len(pw) + 5) \o pw \o << 0 >>

\* code 4: pack('!i', len(cpwd)+5) + cpwd + '\0'
CryptResponse(pw, salt) ==
    LET cpwd == Crypt(pw, salt) IN Pack_i(Len(cpwd) + 5) \o cpwd \o << 0 >>

\* code 5 as it would be with digest() in place of the first hexdigest()
Md5Response_RawDigest(pw, user, salt) ==
    LET m1 == Md5Digest(pw \o user)
        m2 == Md5Hex(m1 \o salt)
        m == << 109, 100, 53 >> \o m2 \o << 0 >>
    IN  Pack_i(Len(m) + 4) \o m

\* code 5: m = md5(passwd + userid).hexdigest(); m = md5(m + salt).hexdigest();
\* m = 'md5' + m + '\0'; pack('!i', len(m)+4) + m
Md5Response(pw, user, salt) ==
    LET m1 == Md5Hex(pw \o user)
        m2 == Md5Hex(m1 \o salt)
        m == << 109, 100, 53 >> \o m2 \o << 0 >>
    IN  Pack_i(Len(m) + 4) \o m

\* _pkt_R as it would be without its final `else: raise`
AuthError_Lenient(code, have_crypt) ==
    IF code \in {1, 2} THEN "InterfaceError"
    ELSE IF code = 4 THEN (IF have_crypt THEN "" ELSE "InterfaceError")
    ELSE ""

\* which exception _pkt_R raises for a code, "" for none; have_crypt says
\* whether `import crypt` succeeds on this platform
AuthError(code, have_crypt) ==
    IF code \in {0, 3, 5} THEN ""
    ELSE IF code = 4 THEN (IF have_crypt THEN "" ELSE "InterfaceError")
    ELSE "InterfaceError"

\* the message of that exception
AuthErrorArgs(code) ==
    IF code = 1 THEN Args("Kerberos V4 authentication is required", << >>)
    ELSE IF code = 2 THEN Args("Kerberos V5 authentication is required", << >>)
    ELSE IF code = 4 THEN Args("Python crypt module not available", << >>)
    ELSE Args("Unknown startup response code", << code >>)

\* what _pkt_R sends for a code
AuthReply(code, salt, have_crypt) ==
    IF code = 3 THEN << CleartextResponse(passwd) >>
    ELSE IF code = 4 /\ have_crypt THEN << CryptResponse(passwd, salt) >>
    ELSE IF code = 5 THEN << Md5Response(passwd, userid, salt) >>
    ELSE << >>

\* Startup Response
pkt_R ==
    LET r == Read_R(Payload) IN
    /\ Handles(TagR) /\ r.ok
    /\ \E have_crypt \in BOOLEAN :
        /\ authenticated' = IF r.code = 0 THEN 1 ELSE authenticated
        /\ sent' = sent \o AuthReply(r.code, r.salt, have_crypt)
        /\ HandledArgs(TagR, r.used, AuthError(r.code, have_crypt),
                       AuthErrorArgs(r.code))
    /\ UNCHANGED << ready, result, notify_queue, func_result, field_count,
                    backend_key >>

(***************************************************************************)
(* __read_response for a tag without a handler, and a read that meets the  *)
(* end of the stream.                                                      *)
(***************************************************************************)
\* __read_response as it would be if it skipped a byte after the tag
UnknownTag_ReadsOn ==
    /\ Reading /\ Stream # << >> /\ Head(Stream) \notin KnownTags
    /\ Consume(IF Len(Stream) >= 2 THEN 2 ELSE 1)
    /\ RaiseArgs("InterfaceError",
                 Args("Unrecognized packet type from server", << Head(Stream) >>))
    /\ UNCHANGED << socket, address, lo_funcs, stdin, stdout,
                    authenticated, ready, result, notify_queue,
                    func_result, field_count, backend_key, passwd, userid,
                    srvPending, peerClosed, nsent, observed >>

UnknownTag ==
    /\ Reading /\ Stream # << >> /\ Head(Stream) \notin KnownTags
    /\ Consume(1)
    /\ RaiseArgs("InterfaceError",
                 Args("Unrecognized packet type from server", << Head(Stream) >>))
    /\ UNCHANGED << socket, address, lo_funcs, stdin, stdout,
                    authenticated, ready, result, notify_queue,
                    func_result, field_count, backend_key, passwd, userid,
                    srvPending, peerClosed, nsent, observed >>

\* what the handler of the message at the head of s would read when
\* self.__field_count is fc
FrameOf(s, fc) ==
    LET tag == Head(s) IN
    CASE tag \in {TagC, TagE, TagI, TagN, TagP} -> Read_str(Tail(s))
      [] tag = TagA -> Read_A(Tail(s))
      [] tag = TagK -> Read_K(Tail(s))
      [] tag = TagR -> Read_R(Tail(s))
      [] tag = TagT -> Read_T(Tail(s))
      [] tag = TagV -> Read_V(Tail(s))
      [] tag = TagH -> Read_H(Tail(s))
      [] tag \in {TagD, TagB} /\ ~IsNone(fc) ->
             Read_row(Tail(s), Val(fc), IF tag = TagD THEN 1 ELSE 0)
      [] OTHER -> [ok |-> TRUE, used |-> 0]

Frame == FrameOf(Stream, field_count)

\* (the same, ending the method as if it had returned)
ConnectionClosed_Returns ==
    /\ Reading /\ peerClosed
    /\ IF Stream = << >>
       THEN /\ ConsumeClosed(0)
            /\ UNCHANGED << func_result, stdout >>
       ELSE /\ ~Frame.ok
            /\ ConsumeClosed(1 + Frame.used)
            /\ func_result' = IF Head(Stream) = TagV THEN Frame.fr ELSE func_result
            /\ stdout' = IF Head(Stream) = TagH THEN stdout \o Frame.out ELSE stdout
    /\ Return(None)
    /\ UNCHANGED << socket, address, lo_funcs, stdin, authenticated, ready,
                    result, notify_queue, field_count, backend_key, passwd,
                    userid, srvPending, peerClosed, nsent, sent >>

\* recv returned '' before the tag or the payload was complete:
\* raise OperationalError('Connection to backend closed').  _pkt_V has
\* assigned __func_result by then, _pkt_H has written the lines it read.
ConnectionClosed ==
    /\ Reading /\ peerClosed
    /\ IF Stream = << >>
       THEN /\ ConsumeClosed(0)
            /\ UNCHANGED << func_result, stdout >>
       ELSE /\ ~Frame.ok
            /\ ConsumeClosed(1 + Frame.used)
            /\ func_result' = IF Head(Stream) = TagV THEN Frame.fr ELSE func_result
            /\ stdout' = IF Head(Stream) = TagH THEN stdout \o Frame.out ELSE stdout
    /\ RaiseArgs("OperationalError", Args("Connection to backend closed", << >>))
    /\ UNCHANGED << socket, address, lo_funcs, stdin, authenticated, ready,
                    result, notify_queue, field_count, backend_key, passwd,
                    userid, srvPending, peerClosed, nsent, sent >>

(***************************************************************************)
(* The public methods.                                                     *)
(***************************************************************************)
\* pack('<n>s', v): truncated or null-padded to n bytes
PackStr(v, n) == [i \in 1..n |-> IF i <= Len(v) THEN v[i] ELSE 0]

\* pack('!ihh64s32s64s64s64s', 296, 2, 0, dbname, user, options, '', '')
StartupPacket(dbname, user, options) ==
    Pack_i(296) \o Pack_h(2) \o Pack_h(0) \o PackStr(dbname, 64)
      \o PackStr(user, 32) \o PackStr(options, 64) \o PackStr(<< >>, 64)
      \o PackStr(<< >>, 64)

\* a new operation starts: the observation window is reset
StartArgs(name, a, o) ==
    /\ op = "none" /\ nops < MaxOps
    /\ op' = name
    /\ nops' = nops + 1
    /\ outcome' = NoOutcome
    /\ callargs' = a
    /\ lobj' = o
    /\ UNCHANGED << dsn, cursor, wrapper >>

Start(name) == StartArgs(name, << >>, lobj)

\* an operation that starts and ends without reading from the server: it
\* returns v (exc = "") or raises exc
Atomic(name, exc, v) ==
    /\ op = "none" /\ nops < MaxOps
    /\ nops' = nops + 1
    /\ op' = "none"
    /\ pc' = "idle"
    /\ timeout' = 0
    /\ outcome' = [op |-> name, kind |-> IF exc = "" THEN "return" ELSE "raise",
                   exc |-> exc, args |-> NoArgs, value |-> v]
    /\ lobj' = LobjAfter(name, exc # "")
    /\ UNCHANGED << dsn, callargs, cursor, wrapper >>

(***************************************************************************)
(* __read_bytes and __read_string one step of their loops at a time: wire  *)
(* holds the bytes that have reached the socket, and recv takes any number *)
(* of them, at least one.  callargs holds nBytes, or the terminator.       *)
(***************************************************************************)
\* (recv as it would be with `self.__input_buffer = d`)
Recv_Overwrites ==
    IF wire # << >>
    THEN /\ \E k \in 1..Len(wire) :
              /\ input_buffer' = Take(wire, k)
              /\ wire' = Drop(wire, k)
         /\ Continue
    ELSE /\ peerClosed
         /\ RaiseArgs("OperationalError",
                      Args("Connection to backend closed", << >>))
         /\ UNCHANGED << input_buffer, wire >>

\* d = self.__socket.recv(4096); the buffer grows by d, or the read raises
\* when d is ''.  recv blocks while nothing has arrived and the peer is there
Recv ==
    IF wire # << >>
    THEN /\ \E k \in 1..Len(wire) :
              /\ input_buffer' = input_buffer \o Take(wire, k)
              /\ wire' = Drop(wire, k)
         /\ Continue
    ELSE /\ peerClosed
         /\ RaiseArgs("OperationalError",
                      Args("Connection to backend closed", << >>))
         /\ UNCHANGED << input_buffer, wire >>

ReadBytesCall(nBytes) ==
    /\ socket = "open"
    /\ StartArgs("read_bytes", << nBytes >>, lobj)
    /\ pc' = "loop"
    /\ sent' = << >>
    /\ UNCHANGED << client, peer, timeout >>

ReadStringCall(terminator) ==
    /\ socket = "open"
    /\ StartArgs("read_string", << terminator >>, lobj)
    /\ pc' = "loop"
    /\ sent' = << >>
    /\ UNCHANGED << client, peer, timeout >>

\* one turn of the loop of __read_bytes, or its end
ReadBytesStep ==
    /\ op = "read_bytes"
    /\ LET r == ReadBytes(input_buffer, callargs[1]) IN
       IF r.ok
       THEN /\ Return(Some(r.val))
            /\ input_buffer' = r.rest
            /\ wire' = wire
       ELSE Recv
    /\ UNCHANGED << socket, address, authenticated, ready, result,
                    notify_queue, func_result, field_count, backend_key,
                    passwd, userid, lo_funcs, stdin, stdout, srvPending,
                    peerClosed, nsent, sent >>

\* one turn of the loop of __read_string, or its end
ReadStringStep ==
    /\ op = "read_string"
    /\ LET r == ReadString(input_buffer, callargs[1]) IN
       IF r.ok
       THEN /\ Return(Some(r.val))
            /\ input_buffer' = r.rest
            /\ wire' = wire
       ELSE Recv
    /\ UNCHANGED << socket, address, authenticated, ready, result,
                    notify_queue, func_result, field_count, backend_key,
                    passwd, userid, lo_funcs, stdin, stdout, srvPending,
                    peerClosed, nsent, sent >>

(***************************************************************************)
(* __send one turn of its loop at a time: socket.send takes any number of  *)
(* the bytes it is given, at least one.  callargs holds data, and sent     *)
(* what the socket took at each call.                                      *)
(***************************************************************************)
SendCall(data) ==
    /\ socket = "open"
    /\ StartArgs("send", << data >>, lobj)
    /\ pc' = "loop"
    /\ sent' = << >>
    /\ UNCHANGED << client, peer, timeout >>

\* (a turn as it would be with `data = data[nSent + 1:]`)
SendStep_SkipsOne ==
    /\ op = "send"
    /\ LET data == callargs[1] IN
       IF data = << >>
       THEN /\ Return(None)
            /\ sent' = sent
       ELSE /\ \E nSent \in 1..Len(data) :
                 /\ sent' = Append(sent, Take(data, nSent))
                 /\ callargs' = << Drop(data, nSent + 1) >>
            /\ op' = op /\ pc' = pc
            /\ UNCHANGED << timeout, outcome, nops, dsn, lobj, cursor, wrapper >>
    /\ UNCHANGED << client, peer >>

\* while data: nSent = self.__socket.send(data); data = data[nSent:]
SendStep ==
    /\ op = "send"
    /\ LET data == callargs[1] IN
       IF data = << >>
       THEN /\ Return(None)
            /\ sent' = sent
       ELSE /\ \E nSent \in 1..Len(data) :
                 /\ sent' = Append(sent, Take(data, nSent))
                 /\ callargs' = << Drop(data, nSent) >>
            /\ op' = op /\ pc' = pc
            /\ UNCHANGED << timeout, outcome, nops, dsn, lobj, cursor, wrapper >>
    /\ UNCHANGED << client, peer >>

\* the characters str.strip() removes: \t \n \v \f \r and the space
Whitespace == {9, 10, 11, 12, 13, 32}

\* s.strip(): from the first to the last character that is not whitespace
Strip(s) ==
    LET keep == {i \in 1..Len(s) : s[i] \notin Whitespace} IN
    IF keep = {} THEN << >>
    ELSE SubSeq(s, CHOOSE i \in keep : \A j \in keep : i <= j,
                   CHOOSE i \in keep : \A j \in keep : i >= j)

\* the characters parseDSN looks for
ChEq == 61
ChQuote == 39
ChSpace == 32

\* the loop of parseDSN as it would be taking the keyword as it was read
ParseDSNChar_RawKeyword(st, ch) ==
    CASE st.state = 1 ->
           IF ch = ChEq
           THEN [st EXCEPT !.keyword = st.buf, !.buf = << >>, !.state = 2]
           ELSE [st EXCEPT !.buf = Append(st.buf, ch)]
      [] st.state = 2 ->
           IF ch = ChQuote THEN [st EXCEPT !.state = 3]
           ELSE IF ch # ChSpace THEN [st EXCEPT !.buf = << ch >>, !.state = 4]
           ELSE st
      [] st.state = 3 ->
           IF ch = ChQuote
           THEN [st EXCEPT !.result = SetKey(st.result, st.keyword, st.buf),
                           !.buf = << >>, !.state = 1]
           ELSE [st EXCEPT !.buf = Append(st.buf, ch)]
      [] st.state = 4 ->
           IF ch = ChSpace
           THEN [st EXCEPT !.result = SetKey(st.result, st.keyword, st.buf),
                           !.buf = << >>, !.state = 1]
           ELSE [st EXCEPT !.buf = Append(st.buf, ch)]

\* one turn of parseDSN's loop: st holds state, buf, keyword and result
ParseDSNChar(st, ch) ==
    CASE st.state = 1 ->
           IF ch = ChEq
           THEN [st EXCEPT !.keyword = Strip(st.buf), !.buf = << >>, !.state = 2]
           ELSE [st EXCEPT !.buf = Append(st.buf, ch)]
      [] st.state = 2 ->
           IF ch = ChQuote THEN [st EXCEPT !.state = 3]
           ELSE IF ch # ChSpace THEN [st EXCEPT !.buf = << ch >>, !.state = 4]
           ELSE st
      [] st.state = 3 ->
           IF ch = ChQuote
           THEN [st EXCEPT !.result = SetKey(st.result, st.keyword, st.buf),
                           !.buf = << >>, !.state = 1]
           ELSE [st EXCEPT !.buf = Append(st.buf, ch)]
      [] st.state = 4 ->
           IF ch = ChSpace
           THEN [st EXCEPT !.result = SetKey(st.result, st.keyword, st.buf),
                           !.buf = << >>, !.state = 1]
           ELSE [st EXCEPT !.buf = Append(st.buf, ch)]

\* the loop from st over the characters of s: over its first half, which
\* leaves it in one of its four states, then over the other
RECURSIVE ParseDSNLoop(_, _)
ParseDSNLoop(s, st) ==
    IF s = << >> THEN st
    ELSE IF Len(s) = 1 THEN ParseDSNChar(st, s[1])
    ELSE LET half == ParseDSNLoop(SubSeq(s, 1, Len(s) \div 2), st) IN
         IF half.state \in 1..4
         THEN ParseDSNLoop(SubSeq(s, Len(s) \div 2 + 1, Len(s)), half)
         ELSE half

\* parseDSN(s), s being None or a string: a dict from keyword to value
parseDSN(s) ==
    IF IsNone(s) \/ Val(s) = << >> THEN EmptyDict
    ELSE LET st == ParseDSNLoop(Strip(Val(s)),
                                [state |-> 1, buf |-> << >>, keyword |-> << >>,
                                 result |-> EmptyDict]) IN
         IF st.state = 4 THEN SetKey(st.result, st.keyword, st.buf)
         ELSE st.result

\* the module-level function is called with the caller's string
ParseDSNCall ==
    /\ Atomic("parseDSN", "", Some(parseDSN(dsn)))
    /\ sent' = << >>
    /\ UNCHANGED << client, peer >>

\* the keywords connect recognizes, as the strings parseDSN yields
Keyword ==
    [host |-> << 104, 111, 115, 116 >>,
     port |-> << 112, 111, 114, 116 >>,
     dbname |-> << 100, 98, 110, 97, 109, 101 >>,
     user |-> << 117, 115, 101, 114 >>,
     password |-> << 112, 97, 115, 115, 119, 111, 114, 100 >>,
     options |-> << 111, 112, 116, 105, 111, 110, 115 >>]

\* the host connect takes when it is given none: '127.0.0.1' on win32,
\* '/tmp/.s.PGSQL.5432' elsewhere
DefaultHost(win32) ==
    IF win32 THEN << 49, 50, 55, 46, 48, 46, 48, 46, 49 >>
    ELSE << 47, 116, 109, 112, 47, 46, 115, 46, 80, 71, 83, 81, 76, 46,
            53, 52, 51, 50 >>

\* the digits of a string as a number
RECURSIVE DigitsValue(_, _)
DigitsValue(s, acc) ==
    IF s = << >> THEN acc ELSE DigitsValue(Tail(s), 10 * acc + (Head(s) - 48))

\* int(s) of a string: blanks around, a sign, digits; anything else is a
\* ValueError
IntOfStr(s) ==
    LET body == Strip(s)
        signed == body # << >> /\ Head(body) \in {43, 45}
        digits == IF signed THEN Tail(body) ELSE body
    IN  IF digits # << >> /\ \A i \in 1..Len(digits) : digits[i] \in 48..57
        THEN [ok |-> TRUE,
              n |-> IF signed /\ Head(body) = 45 THEN 0 - DigitsValue(digits, 0)
                    ELSE DigitsValue(digits, 0)]
        ELSE [ok |-> FALSE, n |-> 0]

\* connect as it would be letting its keyword parameter user win
ConnectArgs_KeywordUser(d, kw) ==
    [host |-> IF HasKey(d, Keyword.host) THEN d[Keyword.host] ELSE kw.host,
     port |-> IF HasKey(d, Keyword.port) THEN IntOfStr(d[Keyword.port])
              ELSE [ok |-> TRUE, n |-> kw.port],
     dbname |-> IF HasKey(d, Keyword.dbname) THEN d[Keyword.dbname]
                ELSE kw.database,
     user |-> kw.user,
     password |-> IF HasKey(d, Keyword.password) THEN d[Keyword.password]
                  ELSE kw.password,
     options |-> IF HasKey(d, Keyword.options) THEN d[Keyword.options]
                 ELSE kw.opt]

\* args after the `if not args.has_key(...)` lines of connect; kw holds the
\* keyword parameters, host already defaulted.  args['port'] is kept as what
\* int() makes of it: a keyword port is an int, a port of the DSN a string
ConnectArgs(d, kw) ==
    [host |-> IF HasKey(d, Keyword.host) THEN d[Keyword.host] ELSE kw.host,
     port |-> IF HasKey(d, Keyword.port) THEN IntOfStr(d[Keyword.port])
              ELSE [ok |-> TRUE, n |-> kw.port],
     dbname |-> IF HasKey(d, Keyword.dbname) THEN d[Keyword.dbname] ELSE kw.database,
     user |-> IF HasKey(d, Keyword.user) THEN d[Keyword.user] ELSE kw.user,
     password |-> IF HasKey(d, Keyword.password) THEN d[Keyword.password] ELSE kw.password,
     options |-> IF HasKey(d, Keyword.options) THEN d[Keyword.options] ELSE kw.opt]

\* what s.connect is called with: a path, or (host, port)
AddressOf(args) ==
    IF args.host # << >> /\ Head(args.host) = 47
    THEN [family |-> "AF_UNIX", host |-> args.host, port |-> 0]
    ELSE [family |-> "AF_INET", host |-> args.host, port |-> args.port.n]

\* connect(dsn, user, password, host, database, port, opt) up to its loop:
\* the socket is connected, the credentials stored, the startup packet sent;
\* int() of a port that is no number leaves with ValueError before that
ConnectDSN(kw, win32) ==
    LET host == IF IsNone(kw.host)
                THEN DefaultHost(win32)
                ELSE Val(kw.host)
        args == ConnectArgs(parseDSN(dsn), [kw EXCEPT !.host = host])
        unix == args.host # << >> /\ Head(args.host) = 47
    IN  /\ socket = "none"
        /\ IF ~unix /\ ~args.port.ok
           THEN /\ Atomic("connect", "ValueError", None)
                /\ sent' = << >>
                /\ UNCHANGED << socket, address, passwd, userid >>
           ELSE /\ Start("connect")
                /\ pc' = "loop"
                /\ timeout' = timeout
                /\ socket' = "open"
                /\ address' = Some(AddressOf(args))
                /\ passwd' = args.password
                /\ userid' = args.user
                /\ sent' = << StartupPacket(args.dbname, args.user,
                                            args.options) >>
        /\ UNCHANGED << input_buffer, authenticated, ready, result,
                        notify_queue, func_result, field_count, backend_key,
                        lo_funcs, stdin, stdout, peer >>

\* bpgsql.connect(): PGClient() followed by pg.connect(user=, password=,
\* database=) on a platform other than win32
Connect(user, password, dbname) ==
    ConnectDSN([user |-> user, password |-> password, host |-> None,
                database |-> dbname, port |-> 5432, opt |-> << >>], FALSE)

\* connect: `while not self.__ready` ended
ConnectReturn ==
    /\ op = "connect" /\ ready # 0
    /\ Return(None)
    /\ UNCHANGED << client, peer, observed >>

\* execute as it would be without `self.__ready = 0`
Execute_KeepsReady(str) ==
    /\ socket = "open"
    /\ Start("execute")
    /\ pc' = "loop"
    /\ result' = Some(<< EmptyDict >>)
    /\ sent' = << << TagQ >> \o str \o << 0 >> >>
    /\ UNCHANGED << socket, address, lo_funcs, stdin, stdout,
                    input_buffer, authenticated, ready, notify_queue,
                    func_result, field_count, backend_key, passwd, userid,
                    peer, timeout >>

\* execute up to its loop: ready cleared, a fresh block list, 'Q' + str + '\0'
\* (pc is "loop" for a caller of execute, "bind" for Cursor.execute)
ExecuteAt(str, at) ==
    /\ socket = "open"
    /\ Start("execute")
    /\ pc' = at
    /\ ready' = 0
    /\ result' = Some(<< EmptyDict >>)
    /\ sent' = << << TagQ >> \o str \o << 0 >> >>
    /\ UNCHANGED << socket, address, lo_funcs, stdin, stdout,
                    input_buffer, authenticated, notify_queue,
                    func_result, field_count, backend_key, passwd, userid,
                    peer, timeout >>

Execute(str) == ExecuteAt(str, "loop")

(***************************************************************************)
(* The parameters of execute.  A parameter is None, a string or a number:  *)
(* [none |-> TRUE], [str |-> s] or [num |-> n].                            *)
(***************************************************************************)
ParamNone == [none |-> TRUE]
ParamStr(s) == [str |-> s]
ParamNum(n) == [num |-> n]

\* str(n) of an int
RECURSIVE StrOfNat(_)
StrOfNat(n) ==
    IF n < 10 THEN << 48 + n >> ELSE Append(StrOfNat(n \div 10), 48 + (n % 10))
StrOfInt(n) == IF n < 0 THEN << 45 >> \o StrOfNat(0 - n) ELSE StrOfNat(n)

\* a.replace('\\', '\\\\').replace("'", "\\'"): a backslash becomes two, and
\* then a quote becomes a backslash and a quote
RECURSIVE EscapeStr(_)
EscapeStr(a) ==
    IF a = << >> THEN << >>
    ELSE (IF Head(a) = 92 THEN << 92, 92 >>
          ELSE IF Head(a) = ChQuote THEN << 92, ChQuote >>
          ELSE << Head(a) >>) \o EscapeStr(Tail(a))

\* the loop of execute over args: what is appended to na for a, as the text
\* that '%s' makes of it ('NULL', the quoted string, or str of the number)
Substituted(a) ==
    IF "none" \in DOMAIN a THEN << 78, 85, 76, 76 >>
    ELSE IF "str" \in DOMAIN a
    THEN << ChQuote >> \o EscapeStr(a.str) \o << ChQuote >>
    ELSE StrOfInt(a.num)

\* str % tuple(na) for a str whose conversions are '%s' and '%%': the text,
\* or the exception (TypeError when the arguments are too few or too many,
\* ValueError when the format ends in '%' or has another character after it)
RECURSIVE FormatStr(_, _)
FormatStr(str, na) ==
    IF str = << >>
    THEN [exc |-> IF na = << >> THEN "" ELSE "TypeError", str |-> << >>]
    ELSE IF Head(str) # 37
    THEN LET r == FormatStr(Tail(str), na) IN
         [exc |-> r.exc, str |-> << Head(str) >> \o r.str]
    ELSE IF Len(str) < 2 \/ str[2] \notin {37, 115}
    THEN [exc |-> "ValueError", str |-> << >>]
    ELSE IF str[2] = 37
    THEN LET r == FormatStr(Tail(Tail(str)), na) IN
         [exc |-> r.exc, str |-> << 37 >> \o r.str]
    ELSE IF na = << >> THEN [exc |-> "TypeError", str |-> << >>]
    ELSE LET r == FormatStr(Tail(Tail(str)), Tail(na)) IN
         [exc |-> r.exc, str |-> Substituted(Head(na)) \o r.str]

\* execute(str, args): args is None or a sequence of parameters
ExecuteArgs(str, args) ==
    LET f == IF IsNone(args) THEN [exc |-> "", str |-> str]
             ELSE FormatStr(str, Val(args)) IN
    IF f.exc = "" THEN Execute(f.str)
    ELSE /\ socket = "open"
         /\ Atomic("execute", f.exc, None)
         /\ sent' = << >>
         /\ UNCHANGED << client, peer >>

\* result, self.__result = self.__result[:-1], None; return result
\* (what execute would return if it dropped the first block instead)
Returned_DropsFirst(blocks) == Tail(blocks)

\* self.__result[:-1]
Returned(blocks) == Front(blocks)

ExecuteReturn ==
    /\ op = "execute" /\ pc = "loop" /\ ready # 0
    /\ Return(Returned(Val(result)))
    /\ result' = None
    /\ UNCHANGED << socket, address, lo_funcs, stdin, stdout,
                    input_buffer, authenticated, ready, notify_queue,
                    func_result, field_count, backend_key, passwd, userid,
                    peer, observed >>

\* an argument of funcall is an int or a string
IntArg(n) == [int |-> TRUE, n |-> n, str |-> << >>]
StrArg(v) == [int |-> FALSE, n |-> 0, str |-> v]

\* the sends of funcall for its arguments
RECURSIVE SendArgs(_)
SendArgs(args) ==
    IF args = << >> THEN << >>
    ELSE LET arg == Head(args) IN
         (IF arg.int THEN << Pack_i(4) \o Pack_i(arg.n) >>
          ELSE << Pack_i(Len(arg.str)), arg.str >>) \o SendArgs(Tail(args))

\* funcall up to its loop: pack('!2sii', 'F\0', oid, len(args)), the arguments
Funcall(oid, args) ==
    /\ socket = "open"
    /\ Start("funcall")
    /\ pc' = "loop"
    /\ ready' = 0
    /\ sent' = << << TagF, 0 >> \o Pack_i(oid) \o Pack_i(Len(args)) >>
                 \o SendArgs(args)
    /\ UNCHANGED << socket, address, lo_funcs, stdin, stdout,
                    input_buffer, authenticated, result, notify_queue,
                    func_result, field_count, backend_key, passwd, userid,
                    peer, timeout >>

\* result, self.__func_result = self.__func_result, None; return result
FuncallReturn ==
    /\ op = "funcall" /\ ready # 0
    /\ Return(func_result)
    /\ func_result' = None
    /\ UNCHANGED << socket, address, lo_funcs, stdin, stdout,
                    input_buffer, authenticated, ready, result,
                    notify_queue, field_count, backend_key, passwd, userid,
                    peer, observed >>

(***************************************************************************)
(* Large objects.  lo_create, lo_open and lo_unlink load the catalog with  *)
(* execute when it is empty (pc = "init") and go on with funcall           *)
(* (pc = "call"); lo_open then makes the _LargeObject (pc = "made") and    *)
(* seeks to its start (pc = "seek").  The caller refers to one             *)
(* _LargeObject at a time.                                                 *)
(***************************************************************************)
INV_WRITE == 131072
INV_READ == 262144
SEEK_SET == 0

\* the names __lo_funcs is asked for: 'lo_creat', 'lo_open', 'lo_close',
\* 'lo_lseek', 'lo_unlink', 'loread', 'lo_tell', 'lowrite'
LoName ==
    [creat |-> << 108, 111, 95, 99, 114, 101, 97, 116 >>,
     read |-> << 108, 111, 114, 101, 97, 100 >>,
     tell |-> << 108, 111, 95, 116, 101, 108, 108 >>,
     write |-> << 108, 111, 119, 114, 105, 116, 101 >>,
     open |-> << 108, 111, 95, 111, 112, 101, 110 >>,
     close |-> << 108, 111, 95, 99, 108, 111, 115, 101 >>,
     lseek |-> << 108, 111, 95, 108, 115, 101, 101, 107 >>,
     unlink |-> << 108, 111, 95, 117, 110, 108, 105, 110, 107 >>]

\* "SELECT proname, oid FROM pg_proc WHERE proname like 'lo%'"
LoQuery ==
    << 83, 69, 76, 69, 67, 84, 32, 112, 114, 111, 110, 97, 109, 101, 44, 32,
       111, 105, 100, 32, 70, 82, 79, 77, 32, 112, 103, 95, 112, 114, 111, 99,
       32, 87, 72, 69, 82, 69, 32, 112, 114, 111, 110, 97, 109, 101, 32, 108,
       105, 107, 101, 32, 39, 108, 111, 37, 39 >>

\* what funcall(oid, *args) sends
FuncallSends(oid, args) ==
    << << TagF, 0 >> \o Pack_i(oid) \o Pack_i(Len(args)) >> \o SendArgs(args)

\* the loop of __lo_init over rows, filling funcs: a row is the list of its
\* values, each None or a string; the key of an entry is r[0] as it is.  An
\* exception leaves the entries made so far
RECURSIVE lo_init_rows(_, _)
lo_init_rows(rows, funcs) ==
    IF rows = << >> THEN [funcs |-> funcs, exc |-> ""]
    ELSE LET r == Head(rows) IN
         IF Len(r) < 2 THEN [funcs |-> funcs, exc |-> "IndexError"]
         ELSE IF IsNone(r[2]) THEN [funcs |-> funcs, exc |-> "TypeError"]
         ELSE IF ~IntOfStr(Val(r[2])).ok
         THEN [funcs |-> funcs, exc |-> "ValueError"]
         ELSE lo_init_rows(Tail(rows),
                           SetKey(funcs, r[1], IntOfStr(Val(r[2])).n))

\* __lo_init once execute has returned blocks: blocks[0]['rows'], the loop
lo_init(blocks, funcs) ==
    IF blocks = << >> THEN [funcs |-> funcs, exc |-> "IndexError"]
    ELSE IF ~HasKey(blocks[1], "rows") THEN [funcs |-> funcs, exc |-> "KeyError"]
    ELSE lo_init_rows(blocks[1]["rows"], funcs)

\* `if not self.__lo_funcs` as it would be if the catalog were never kept
NotLoaded_Always(funcs) == DOMAIN funcs = DOMAIN funcs

\* `if not self.__lo_funcs`
NotLoaded(funcs) == DOMAIN funcs = {}

\* the line of method `name` that follows the loading of the catalog, with
\* the catalog funcs and the arguments a: the exception it raises, or what
\* its funcall sends.  lo_unlink reads self.__funcs, which no PGClient has
LoCall(name, funcs, a) ==
    IF name = "lo_unlink" THEN [exc |-> "AttributeError", sends |-> << >>]
    ELSE LET fname == IF name = "lo_create" THEN LoName.creat
                      ELSE LoName.open
         IN  IF ~HasKey(funcs, Some(fname))
             THEN [exc |-> "KeyError", sends |-> << >>]
             ELSE [exc |-> "",
                   sends |-> FuncallSends(funcs[Some(fname)],
                                          [i \in 1..Len(a) |-> IntArg(a[i])])]

\* lo_create, lo_open or lo_unlink with the arguments a, up to the loop of
\* its execute or of its funcall
LoStart(name, a) ==
    /\ socket = "open"
    /\ IF name = "lo_open" /\ ~IsNone(lobj) THEN Val(lobj).ref = "dead"
       ELSE TRUE
    /\ IF NotLoaded(lo_funcs)
       THEN /\ StartArgs(name, a, lobj)
            /\ pc' = "init"
            /\ ready' = 0
            /\ result' = Some(<< EmptyDict >>)
            /\ sent' = << << TagQ >> \o LoQuery \o << 0 >> >>
            /\ timeout' = timeout
       ELSE LET c == LoCall(name, lo_funcs, a) IN
            /\ result' = result
            /\ IF c.exc # ""
               THEN /\ Atomic(name, c.exc, None)
                    /\ ready' = ready
                    /\ sent' = << >>
               ELSE /\ StartArgs(name, a, lobj)
                    /\ pc' = "call"
                    /\ ready' = 0
                    /\ sent' = c.sends
                    /\ timeout' = timeout
    /\ UNCHANGED << socket, address, lo_funcs, stdin, stdout, input_buffer,
                    authenticated, notify_queue, func_result, field_count,
                    backend_key, passwd, userid, peer >>

lo_create(mode) == LoStart("lo_create", << mode >>)
lo_open(oid, mode) == LoStart("lo_open", << oid, mode >>)
lo_unlink(oid) == LoStart("lo_unlink", << oid >>)

\* the execute of __lo_init has returned: the catalog is filled, and the
\* method goes on to its funcall
LoInitDone ==
    /\ op \in {"lo_create", "lo_open", "lo_unlink"} /\ pc = "init"
    /\ ready # 0
    /\ LET l == lo_init(Front(Val(result)), lo_funcs)
           c == LoCall(op, l.funcs, callargs) IN
       /\ lo_funcs' = l.funcs
       /\ IF l.exc # "" \/ c.exc # ""
          THEN /\ Raise(IF l.exc # "" THEN l.exc ELSE c.exc)
               /\ ready' = ready
               /\ sent' = sent
          ELSE /\ op' = op
               /\ pc' = "call"
               /\ ready' = 0
               /\ sent' = sent \o c.sends
               /\ UNCHANGED << timeout, outcome, nops, dsn, lobj, callargs,
                                 cursor, wrapper >>
    /\ result' = None
    /\ UNCHANGED << socket, address, stdin, stdout, input_buffer,
                    authenticated, notify_queue, func_result, field_count,
                    backend_key, passwd, userid, peer >>

\* the funcall of the method has returned r.  lo_create, tell and write
\* return unpack('!i', r)[0]; lo_open makes the _LargeObject of that
\* descriptor; read returns r; close, __del__ and seek of the _LargeObject
\* end.  unpack raises struct.error when r is not four bytes long, and
\* struct.error or TypeError, depending on the interpreter, when r is None
LoCallDone ==
    /\ op \in LoOps \ {"lo_unlink"} /\ pc = "call"
    /\ ready # 0
    /\ func_result' = None
    /\ IF op \in {"lobj_close", "lobj_del", "lobj_seek"} THEN Return(None)
       ELSE IF op = "lobj_read" THEN Return(func_result)
       ELSE IF IsNone(func_result)
       THEN \E e \in {"struct.error", "TypeError"} : Raise(e)
       ELSE IF Len(Val(func_result)) # 4 THEN Raise("struct.error")
       ELSE IF op # "lo_open" THEN Return(Some(Unpack_i(Val(func_result))))
       ELSE /\ op' = op
            /\ pc' = "made"
            /\ lobj' = Some(LargeObject(Unpack_i(Val(func_result))))
            /\ UNCHANGED << timeout, outcome, nops, dsn, callargs, cursor, wrapper >>
    /\ UNCHANGED << socket, address, lo_funcs, stdin, stdout, input_buffer,
                    authenticated, ready, result, notify_queue, field_count,
                    backend_key, passwd, userid, peer, observed >>

\* lo_open as it would be without lobj.seek(0, SEEK_SET)
LoSeek_Skipped ==
    /\ op = "lo_open" /\ pc = "made"
    /\ Return(Val(lobj).fd)
    /\ UNCHANGED << client, peer, observed >>

\* lobj.seek(0, SEEK_SET) in lo_open: _lo_funcall('lo_lseek', fd, 0, 0)
LoSeek ==
    /\ op = "lo_open" /\ pc = "made"
    /\ IF ~HasKey(lo_funcs, Some(LoName.lseek))
       THEN /\ Raise("KeyError")
            /\ ready' = ready
            /\ sent' = sent
       ELSE /\ op' = op
            /\ pc' = "seek"
            /\ ready' = 0
            /\ sent' = sent \o FuncallSends(lo_funcs[Some(LoName.lseek)],
                                  << IntArg(Val(Val(lobj).fd)), IntArg(0),
                                     IntArg(SEEK_SET) >>)
            /\ UNCHANGED << timeout, outcome, nops, dsn, lobj, callargs,
                    cursor, wrapper >>
    /\ UNCHANGED << socket, address, lo_funcs, stdin, stdout, input_buffer,
                    authenticated, result, notify_queue, func_result,
                    field_count, backend_key, passwd, userid, peer >>

\* the funcall of seek has returned: lo_open returns the _LargeObject
LoSeekDone ==
    /\ op = "lo_open" /\ pc = "seek"
    /\ ready # 0
    /\ func_result' = None
    /\ Return(Val(lobj).fd)
    /\ UNCHANGED << socket, address, lo_funcs, stdin, stdout, input_buffer,
                    authenticated, ready, result, notify_queue, field_count,
                    backend_key, passwd, userid, peer, observed >>

\* _LargeObject.close, called by the caller (name = "lobj_close") or by
\* __del__ (name = "lobj_del"), up to the loop of its funcall:
\* self.__client._lo_funcall('lo_close', self.__fd).  __del__ calls it
\* `if self.__client`; what it raises inside __del__ the interpreter reports
\* and ignores
LobjCloseAs(name) ==
    /\ socket = "open"
    /\ ~IsNone(lobj)
    /\ IF ~Val(lobj).client \/ ~HasKey(lo_funcs, Some(LoName.close))
       THEN /\ Atomic(name,
                      IF Val(lobj).client THEN "KeyError"
                      ELSE IF name = "lobj_del" THEN "" ELSE "AttributeError",
                      None)
            /\ ready' = ready
            /\ sent' = << >>
       ELSE /\ StartArgs(name, << >>,
                         Some([Val(lobj) EXCEPT !.closes = @ + 1]))
            /\ pc' = "call"
            /\ ready' = 0
            /\ sent' = FuncallSends(lo_funcs[Some(LoName.close)],
                                    << IntArg(Val(Val(lobj).fd)) >>)
            /\ timeout' = timeout
    /\ UNCHANGED << socket, address, lo_funcs, stdin, stdout, input_buffer,
                    authenticated, result, notify_queue, func_result,
                    field_count, backend_key, passwd, userid, peer >>

\* the caller closes the _LargeObject lo_open returned
LobjClose == ~IsNone(lobj) /\ Val(lobj).ref = "caller" /\ LobjCloseAs("lobj_close")

\* the last reference to the _LargeObject goes: its __del__ runs
LobjDel == ~IsNone(lobj) /\ Val(lobj).ref # "dead" /\ LobjCloseAs("lobj_del")

\* read, seek, tell or write of the _LargeObject lo_open returned, up to the
\* loop of its funcall: self.__client._lo_funcall(fname, self.__fd, ...),
\* rest being the arguments after the descriptor
LobjMethod(name, fname, rest) ==
    /\ socket = "open"
    /\ ~IsNone(lobj) /\ Val(lobj).ref = "caller"
    /\ IF ~Val(lobj).client \/ ~HasKey(lo_funcs, Some(fname))
       THEN /\ Atomic(name,
                      IF Val(lobj).client THEN "KeyError" ELSE "AttributeError",
                      None)
            /\ ready' = ready
            /\ sent' = << >>
       ELSE /\ StartArgs(name, << >>, lobj)
            /\ pc' = "call"
            /\ ready' = 0
            /\ sent' = FuncallSends(lo_funcs[Some(fname)],
                                    << IntArg(Val(Val(lobj).fd)) >> \o rest)
            /\ timeout' = timeout
    /\ UNCHANGED << socket, address, lo_funcs, stdin, stdout, input_buffer,
                    authenticated, result, notify_queue, func_result,
                    field_count, backend_key, passwd, userid, peer >>

LobjRead(len) == LobjMethod("lobj_read", LoName.read, << IntArg(len) >>)
LobjSeek(offset, whence) ==
    LobjMethod("lobj_seek", LoName.lseek, << IntArg(offset), IntArg(whence) >>)
LobjTell == LobjMethod("lobj_tell", LoName.tell, << >>)
LobjWrite(data) == LobjMethod("lobj_write", LoName.write, << StrArg(data) >>)

\* __del__ as it would be without `self.__socket = None`
Shutdown_KeepsSocket(name) ==
    /\ Atomic(name, "", None)
    /\ IF socket # "none"
       THEN sent' = << << TagX >> >>
       ELSE sent' = << >>
    /\ UNCHANGED << client, peer >>

\* __del__: with a socket, send 'X', close the socket and forget it;
\* without one, nothing.  socket.send takes the byte as long as this end
\* of the connection is open
Shutdown(name) ==
    /\ Atomic(name, "", None)
    /\ IF socket # "none"
       THEN /\ sent' = << << TagX >> >>
            /\ socket' = "none"
       ELSE /\ sent' = << >>
            /\ socket' = socket
    /\ UNCHANGED << address, input_buffer, authenticated, ready, result,
                    notify_queue, func_result, field_count, backend_key,
                    passwd, userid, lo_funcs, stdin, stdout, peer >>

\* close() is self.__del__()
Close == Shutdown("close")

\* the destructor runs
Del == Shutdown("__del__")

\* wait_for_notify(t) is called
WaitForNotify(t) ==
    /\ socket = "open"
    /\ Start("wait_for_notify")
    /\ pc' = "check"
    /\ timeout' = t
    /\ sent' = << >>
    /\ UNCHANGED << client, peer >>

\* select.select([socket], [], [] [, timeout]) finds the socket readable:
\* data has arrived, or the peer has closed
Readable == wire # << >> \/ peerClosed

\* wait_for_notify as it would be popping the newest entry
WaitReturn_Newest ==
    /\ op = "wait_for_notify" /\ pc = "check"
    /\ notify_queue # << >>
    /\ Return(Last(notify_queue))
    /\ notify_queue' = Front(notify_queue)
    /\ UNCHANGED << socket, address, lo_funcs, stdin, stdout,
                    input_buffer, authenticated, ready, result,
                    func_result, field_count, backend_key, passwd, userid,
                    peer, sent >>

\* the top of the loop with a queued notification: pop it and return it
WaitReturn ==
    /\ op = "wait_for_notify" /\ pc = "check"
    /\ notify_queue # << >>
    /\ Return(Head(notify_queue))
    /\ notify_queue' = Tail(notify_queue)
    /\ UNCHANGED << socket, address, lo_funcs, stdin, stdout,
                    input_buffer, authenticated, ready, result,
                    func_result, field_count, backend_key, passwd, userid,
                    peer, sent >>

\* __wait_response returns 1: the buffer is not empty, or select reports
\* the socket readable
WaitPoll ==
    /\ op = "wait_for_notify" /\ pc = "check"
    /\ notify_queue = << >>
    /\ input_buffer # << >> \/ Readable
    /\ pc' = "read"
    /\ UNCHANGED << client, peer, op, timeout, outcome, nops, dsn, lobj, callargs,
                    cursor, wrapper, observed >>

\* __wait_response as it would be without `if self.__input_buffer: return 1`
WaitTimeout_IgnoresBuffer ==
    /\ op = "wait_for_notify" /\ pc = "check"
    /\ notify_queue = << >>
    /\ timeout >= 0
    /\ ~Readable
    /\ Raise("PostgreSQL_Timeout")
    /\ UNCHANGED << client, peer, observed >>

\* __wait_response returns 0: select with a timeout >= 0 came back empty
WaitTimeout ==
    /\ op = "wait_for_notify" /\ pc = "check"
    /\ notify_queue = << >>
    /\ input_buffer = << >>
    /\ timeout >= 0
    /\ ~Readable
    /\ Raise("PostgreSQL_Timeout")
    /\ UNCHANGED << client, peer, observed >>

(***************************************************************************)
(* The server: the messages of protocol 2.0 as the handlers expect them.   *)
(***************************************************************************)
Msg_str(tag, str) == << tag >> \o str \o << 0 >>
Msg_A(pid, name) == << TagA >> \o Pack_i(pid) \o name \o << 0 >>
Msg_K(pid, key) == << TagK >> \o Pack_i(pid) \o Pack_i(key)
Msg_R(code, salt) == << TagR >> \o Pack_i(code) \o salt
Msg_Z == << TagZ >>

RECURSIVE EncFields(_)
EncFields(descr) ==
    IF descr = << >> THEN << >>
    ELSE LET f == Head(descr) IN
         f[1] \o << 0 >> \o Pack_i(f[2]) \o Pack_h(f[3]) \o Pack_i(f[4])
           \o EncFields(Tail(descr))

Msg_T(descr) == << TagT >> \o Pack_h(Len(descr)) \o EncFields(descr)

\* the null bitmap of a row: one bit per field, set when the field is there
RECURSIVE BitmapBytes(_)
BitmapBytes(row) ==
    IF row = << >> THEN << >>
    ELSE LET k == Min(8, Len(row))
             bit(i) == IF i <= k /\ ~IsNone(row[i]) THEN 2 ^ (8 - i) ELSE 0
         IN  << bit(1) + bit(2) + bit(3) + bit(4) + bit(5) + bit(6) + bit(7)
                  + bit(8) >> \o BitmapBytes(Drop(row, k))

RECURSIVE EncValues(_, _)
EncValues(row, ascii) ==
    IF row = << >> THEN << >>
    ELSE (IF IsNone(Head(row)) THEN << >>
          ELSE Pack_i(Len(Val(Head(row))) + (IF ascii = 1 THEN 4 ELSE 0))
                 \o Val(Head(row)))
           \o EncValues(Tail(row), ascii)

Msg_row(tag, row, ascii) == << tag >> \o BitmapBytes(row) \o EncValues(row, ascii)

\* a function call response with a value, or without one
Msg_V(v) ==
    << TagV >> \o (IF IsNone(v) THEN << >>
                   ELSE << TagG >> \o Pack_i(Len(Val(v))) \o Val(v))
      \o << Sub0 >>

\* the strings of the model: "e", "c", "n", "m", "a", and the empty string
strE == << 101 >>
strC == << 99 >>
strN == << 110 >>
strM == << 109 >>
\* one column named "a": type oid 23 (int4), size 4, modifier -1
OneColumn == << << << 97 >>, 23, 4, -1 >> >>

\* what the server answers to a SELECT of one row with one column holding v
SelectResponse(v) ==
    Msg_str(TagP, << >>) \o Msg_T(OneColumn)
      \o Msg_row(TagD, << Some(<< v >>) >>, 1) \o Msg_str(TagC, strC)

\* the bursts the server may write once the session is established: whole
\* responses, and single messages in any order
QueryMenu ==
    { SelectResponse(49), SelectResponse(50),
      Msg_str(TagE, strE), Msg_Z,
      Msg_V(Some(<< 0, 0, 0, 7 >>)),
      Msg_T(OneColumn),
      << TagUnknown >> }

\* the bursts of a session that listens for notifications
NotifyMenu ==
    { Msg_A(1, strN), Msg_A(2, strM), Msg_Z, Msg_str(TagE, strE),
      Msg_str(TagN, strN) }

\* the bursts the server may write during the handshake
AuthMenu ==
    { Msg_R(code, << >>) : code \in {0, 1, 2, 3, 6, -1} }
      \cup { Msg_R(4, << 120, 121 >>), Msg_R(5, << 1, 2, 3, 4 >>),
             Msg_K(9, 8) \o Msg_Z, Msg_Z, Msg_str(TagE, strE),
             Msg_A(1, strN), << TagUnknown >> }

\* where the network may cut a burst in two: after its first byte, in its
\* middle, or not at all
Cuts(m) == {1, (Len(m) + 1) \div 2, Len(m)}

\* the server writes a burst: its first bytes reach the client's socket,
\* the others are in flight
ServerSend(menu) ==
    /\ socket = "open" /\ ~peerClosed
    /\ nsent < MaxMsgs
    /\ srvPending = << >> /\ Len(wire) <= MaxUnread
    /\ \E m \in menu : \E k \in Cuts(m) :
         /\ wire' = wire \o Take(m, k)
         /\ srvPending' = Drop(m, k)
    /\ nsent' = nsent + 1
    /\ UNCHANGED << client, peerClosed, caller, observed >>

\* the bytes in flight reach the client's socket
Transmit ==
    /\ srvPending # << >>
    /\ wire' = wire \o srvPending
    /\ srvPending' = << >>
    /\ UNCHANGED << client, peerClosed, nsent, caller, observed >>

\* the server closes the connection; what had not left it is lost
PeerClose ==
    /\ socket = "open" /\ ~peerClosed
    /\ peerClosed' = TRUE
    /\ srvPending' = << >>
    /\ UNCHANGED << client, wire, nsent, caller, observed >>

(***************************************************************************)
(* The Cursor of the cursor/result layer: its attributes and operations as *)
(* the specification of the layer and CursorTests describe them.  Its      *)
(* execute runs PGClient.execute and binds the cursor to the first block   *)
(* that returns.                                                           *)
(***************************************************************************)
\* how many calls the caller makes on its Cursor besides execute
MaxCalls == 3

\* a cursor without a result: connection is TRUE for the connection that
\* made it and FALSE for None; rows is the result set it reads from.
\* executed and calls are history: whether an execute of it has returned,
\* and how many other calls were made on it
NewCursor(conn) ==
    [connection |-> conn, arraysize |-> 1, description |-> None,
     rowcount |-> -1, rownumber |-> None, rows |-> None,
     executed |-> FALSE, calls |-> 0]

\* c with its result dropped
Unbound(c) ==
    [NewCursor(c.connection) EXCEPT !.executed = c.executed,
                                    !.calls = c.calls]

\* c bound to the first of the blocks execute returned: rownumber is reset
\* to 0 if rows are present.  Without a block, or without rows in it, the
\* cursor has no result set.
Bound(c, blocks) ==
    IF blocks = << >> THEN [Unbound(c) EXCEPT !.executed = TRUE]
    ELSE LET b == blocks[1]
             rows == IF HasKey(b, "rows") THEN Some(b["rows"]) ELSE None
         IN  [c EXCEPT !.executed = TRUE,
                       !.description = IF HasKey(b, "description")
                                       THEN Some(b["description"]) ELSE None,
                       !.rows = rows,
                       !.rowcount = IF IsNone(rows) THEN -1
                                    ELSE Len(Val(rows)),
                       !.rownumber = IF IsNone(rows) THEN None ELSE Some(0)]

\* Cursor.execute(sql) of an open cursor, up to the loop of PGClient.execute
CursorExecute(str) ==
    /\ cursor.connection
    /\ ExecuteAt(str, "bind")

\* PGClient.execute returns its blocks, and the cursor binds to the first
CursorExecuteReturn ==
    /\ op = "execute" /\ pc = "bind" /\ ready # 0
    /\ ReturnBound(None, Bound(cursor, Returned(Val(result))))
    /\ result' = None
    /\ UNCHANGED << socket, address, lo_funcs, stdin, stdout,
                    input_buffer, authenticated, ready, notify_queue,
                    func_result, field_count, backend_key, passwd, userid,
                    peer, observed >>

\* a call on the cursor that does not reach the connection: it returns v
\* (exc = "") or raises exc, and leaves the cursor as c
CursorCall(name, exc, v, c) ==
    /\ op = "none" /\ cursor.calls < MaxCalls
    /\ outcome' = [op |-> name, kind |-> IF exc = "" THEN "return" ELSE "raise",
                   exc |-> exc, args |-> NoArgs, value |-> v]
    /\ cursor' = [c EXCEPT !.calls = cursor.calls + 1]
    /\ wrapper' = wrapper
    /\ sent' = << >>
    /\ UNCHANGED << client, peer, op, pc, timeout, nops, dsn, lobj, callargs >>

HasResult(c) == ~IsNone(c.rows)

\* rows[a:b] of Python for 0 <= a
Slice(rows, a, b) ==
    [i \in 1..(Min(b, Len(rows)) - Min(a, Len(rows))) |-> rows[a + i]]

\* scroll as it would be if a position equal to rowcount were in range
CursorScroll_UpToCount(value, mode) ==
    /\ HasResult(cursor)
    /\ LET newpos == IF mode = "relative"
                     THEN Val(cursor.rownumber) + value ELSE value
       IN  IF newpos < 0 \/ newpos > Len(Val(cursor.rows))
           THEN CursorCall("scroll", "IndexError", None, cursor)
           ELSE CursorCall("scroll", "", None,
                           [cursor EXCEPT !.rownumber = Some(newpos)])

\* scroll(value, mode) on a cursor with a result set, mode "relative" or
\* "absolute"
CursorScroll(value, mode) ==
    /\ HasResult(cursor)
    /\ LET newpos == IF mode = "relative"
                     THEN Val(cursor.rownumber) + value ELSE value
       IN  IF newpos < 0 \/ newpos >= Len(Val(cursor.rows))
           THEN CursorCall("scroll", "IndexError", None, cursor)
           ELSE CursorCall("scroll", "", None,
                           [cursor EXCEPT !.rownumber = Some(newpos)])

\* fetchone(): the row at rownumber, or None past the end
CursorFetchOne ==
    IF ~HasResult(cursor) THEN CursorCall("fetchone", "Error", None, cursor)
    ELSE LET n == Val(cursor.rownumber)
             rows == Val(cursor.rows)
         IN  IF n >= Len(rows) THEN CursorCall("fetchone", "", None, cursor)
             ELSE CursorCall("fetchone", "", Some(rows[n + 1]),
                             [cursor EXCEPT !.rownumber = Some(n + 1)])

\* fetchmany(size): size is None for the default, arraysize
CursorFetchMany(size) ==
    IF ~HasResult(cursor) THEN CursorCall("fetchmany", "Error", None, cursor)
    ELSE LET n == Val(cursor.rownumber)
             rows == Val(cursor.rows)
             k == IF IsNone(size) THEN cursor.arraysize ELSE Val(size)
         IN  CursorCall("fetchmany", "", Some(Slice(rows, n, n + k)),
                        [cursor EXCEPT
                           !.rownumber = Some(Min(n + k, Len(rows)))])

\* fetchall(): the rows from rownumber on
CursorFetchAll ==
    IF ~HasResult(cursor) THEN CursorCall("fetchall", "Error", None, cursor)
    ELSE LET n == Val(cursor.rownumber)
             rows == Val(cursor.rows)
         IN  CursorCall("fetchall", "", Some(Slice(rows, n, Len(rows))),
                        [cursor EXCEPT !.rownumber = Some(Len(rows))])

\* next(): fetchone for an iterator, which ends with StopIteration
CursorNext ==
    IF ~HasResult(cursor) THEN CursorCall("next", "Error", None, cursor)
    ELSE LET n == Val(cursor.rownumber)
             rows == Val(cursor.rows)
         IN  IF n >= Len(rows)
             THEN CursorCall("next", "StopIteration", None, cursor)
             ELSE CursorCall("next", "", Some(rows[n + 1]),
                             [cursor EXCEPT !.rownumber = Some(n + 1)])

\* close as it would be if it kept the result
CursorClose_KeepsResult ==
    CursorCall("close", "", None, [cursor EXCEPT !.connection = FALSE])

\* close(): the cursor is as if unused, and has no connection
CursorClose ==
    CursorCall("close", "", None, [Unbound(cursor) EXCEPT !.connection = FALSE])

\* the most statements the wrapper sends
MaxStatements == 4

(***************************************************************************)
(* The ConnectionWrapper of the Django backend                             *)
(* (extras/django_db_backends/postgresql_bpgsql/base.py).  Statements are  *)
(* byte strings; statements holds, in order, what the wrapper passed to    *)
(* bpgsql.Connection, with the reason it was sent.                         *)
(***************************************************************************)
\* 'BEGIN', 'COMMIT' and 'ROLLBACK'
strBEGIN == << 66, 69, 71, 73, 78 >>
strCOMMIT == << 67, 79, 77, 77, 73, 84 >>
strROLLBACK == << 82, 79, 76, 76, 66, 65, 67, 75 >>

\* 'select', 'insert', 'update', 'delete'
CHANGE_OPS ==
    { << 115, 101, 108, 101, 99, 116 >>, << 105, 110, 115, 101, 114, 116 >>,
      << 117, 112, 100, 97, 116, 101 >>, << 100, 101, 108, 101, 116, 101 >> }

\* 'begin', 'commit', 'rollback'
TRANSACTION_OPS ==
    { << 98, 101, 103, 105, 110 >>, << 99, 111, 109, 109, 105, 116 >>,
      << 114, 111, 108, 108, 98, 97, 99, 107 >> }

\* str.lower()
Lower(s) == [i \in 1..Len(s) |-> IF s[i] \in 65..90 THEN s[i] + 32 ELSE s[i]]

\* cmd.split(' ', 1)[0]
FirstWord(cmd) ==
    LET spaces == { i \in 1..Len(cmd) : cmd[i] = 32 } IN
    IF spaces = { } THEN cmd
    ELSE Take(cmd, (CHOOSE i \in spaces : \A j \in spaces : i <= j) - 1)

\* operation = cmd.split(' ', 1)[0].lower()
Operation(cmd) == Lower(FirstWord(cmd))

\* ConnectionWrapper.__init__
NewWrapper == [django_needs_begin |-> TRUE, statements |-> << >>]

\* bpgsql.Connection._execute, commit and rollback: the statement goes to
\* the server
ToServer(statements, stmt, why) ==
    Append(statements, [stmt |-> stmt, why |-> why])

\* the wrapper is called; nothing else of the connection is looked at
WrapperCall(w) ==
    /\ op = "none"
    /\ Len(wrapper.statements) < MaxStatements
    /\ wrapper' = w
    /\ UNCHANGED << client, peer, op, pc, timeout, outcome, nops, dsn, lobj,
                    callargs, cursor, observed >>

\* ConnectionWrapper._execute(cmd)
WrapperExecute(cmd) ==
    LET operation == Operation(cmd)
        begins == wrapper.django_needs_begin /\ operation \in CHANGE_OPS
        s1 == IF begins
              THEN ToServer(wrapper.statements, strBEGIN, "implicit")
              ELSE wrapper.statements
        n1 == IF begins THEN FALSE ELSE wrapper.django_needs_begin
        forces == /\ ~n1 /\ operation \notin CHANGE_OPS
                  /\ operation \notin TRANSACTION_OPS
        s2 == IF forces THEN ToServer(s1, strCOMMIT, "forced") ELSE s1
        n2 == IF forces THEN TRUE ELSE n1
    IN  WrapperCall([django_needs_begin |-> n2,
                     statements |-> ToServer(s2, cmd, "caller")])

\* ConnectionWrapper.commit()
WrapperCommit ==
    WrapperCall([django_needs_begin |-> TRUE,
                 statements |-> ToServer(wrapper.statements, strCOMMIT,
                                         "commit")])

\* ConnectionWrapper.rollback()
WrapperRollback ==
    WrapperCall([django_needs_begin |-> TRUE,
                 statements |-> ToServer(wrapper.statements, strROLLBACK,
                                         "rollback")])

(***************************************************************************)
(* Specifications.                                                         *)
(***************************************************************************)
\* PGClient.__init__
Fresh ==
    /\ socket = "none" /\ address = None
    /\ input_buffer = << >>
    /\ authenticated = 0
    /\ ready = 0
    /\ result = None
    /\ notify_queue = << >>
    /\ func_result = None
    /\ field_count = None
    /\ backend_key = None
    /\ passwd = << >> /\ userid = << >>
    /\ wire = << >> /\ srvPending = << >> /\ peerClosed = FALSE /\ nsent = 0
    /\ op = "none" /\ pc = "idle" /\ timeout = 0 /\ outcome = NoOutcome
    /\ nops = 0
    /\ lo_funcs = EmptyDict /\ stdin = << >> /\ stdout = << >>
    /\ lobj = None /\ callargs = << >>
    /\ cursor = NewCursor(TRUE)
    /\ wrapper = NewWrapper
    /\ sent = << >>

\* a new PGClient whose caller holds no connection string
InitNew == Fresh /\ dsn = None

\* the connection as connect() leaves it after the handshake R(0), K, Z,
\* with a copy-in source, a large-object catalog and a _LargeObject
ConnectedHolding(source, catalog, o) ==
    /\ socket = "open" /\ address = Some(AddressOf([host |-> DefaultHost(FALSE)]))
    /\ input_buffer = << >>
    /\ authenticated = 1
    /\ ready = 1
    /\ result = None
    /\ notify_queue = << >>
    /\ func_result = None
    /\ field_count = None
    /\ backend_key = Some(<< 9, 8 >>)
    /\ passwd = << 112 >> /\ userid = << 117 >>
    /\ wire = << >> /\ srvPending = << >> /\ peerClosed = FALSE /\ nsent = 0
    /\ op = "none" /\ pc = "idle" /\ timeout = 0 /\ outcome = NoOutcome
    /\ nops = 0
    /\ lo_funcs = catalog /\ stdin = source /\ stdout = << >>
    /\ lobj = o /\ callargs = << >>
    /\ cursor = NewCursor(TRUE)
    /\ wrapper = NewWrapper
    /\ sent = << >>

Connected(source, catalog) == ConnectedHolding(source, catalog, None)

\* a fresh connection: nothing to copy in, no catalog loaded
InitConnected == Connected(<< >>, EmptyDict) /\ dsn = None

\* the caller has ended its last method: nothing observes the connection
CallerDone == op = "none" /\ nops >= MaxOps

\* what the server and the network do while somebody is there to see it
Peer(menu) == ~CallerDone /\ (ServerSend(menu) \/ Transmit \/ PeerClose)

\* an established session: queries and function calls
Next ==
    \/ Execute(<< 115 >>)
    \/ ExecuteReturn
    \/ Funcall(1, << IntArg(3) >>)
    \/ FuncallReturn
    \/ pkt_C \/ pkt_D \/ pkt_E \/ pkt_P \/ pkt_T \/ pkt_V \/ pkt_Z
    \/ UnknownTag \/ ConnectionClosed
    \/ Peer(QueryMenu)

Spec == InitConnected /\ [][Next]_vars

\* the step took bytes off the stream: a handler, or __read_response, ran
Consumed == Len(input_buffer') + Len(wire') < Len(input_buffer) + Len(wire)

\* execute or funcall can take a step: its loop has ended, or __read_response
\* has a complete message, or the end of the stream, before it
Runnable ==
    \/ op \in {"execute", "funcall"} /\ ready # 0
    \/ Reading /\ (peerClosed \/ (Stream # << >> /\ Frame.ok))

\* a step of the running method: it read a message, or it ended
Advance == Consumed \/ (op # "none" /\ op' = "none")

\* the running method goes on, since no method sleeps or yields between two
\* reads: weak fairness of its steps, with their enabling condition written
\* out as the state predicate Runnable
ClientFair == []<>(~Runnable) \/ []<><< Advance >>_vars

\* what the server wrote reaches the client unless the connection closes
Deliver == ~CallerDone /\ Transmit

\* the same session with a client that keeps running and a network that
\* delivers
SpecLive ==
    InitConnected /\ [][Next]_vars /\ ClientFair /\ WF_vars(Deliver)

\* an established session that listens for notifications
NextNotify ==
    \/ \E t \in {-1, 0, 1} : WaitForNotify(t)
    \/ WaitReturn \/ WaitPoll \/ WaitTimeout
    \/ Execute(<< 115 >>)
    \/ ExecuteReturn
    \/ pkt_A \/ pkt_E \/ pkt_N \/ pkt_Z
    \/ UnknownTag \/ ConnectionClosed
    \/ Peer(NotifyMenu)

SpecNotify == InitConnected /\ [][NextNotify]_vars

\* an established session that is closed, once or more often
NextClose ==
    \/ Close \/ Del
    \/ Execute(<< 115 >>)
    \/ ExecuteReturn
    \/ pkt_A \/ pkt_E \/ pkt_N \/ pkt_Z
    \/ ConnectionClosed
    \/ Peer(NotifyMenu)

SpecClose == InitConnected /\ [][NextClose]_vars

\* how many lines with a newline a copy-in source holds at most
MaxLines == 2

\* the copy-in sources: up to MaxLines lines 'a\n' or '\.\n', and then
\* nothing more or a last line without newline, 'a' or '\.'
RECURSIVE Sources(_)
Sources(n) ==
    IF n = 0 THEN { << >> }
    ELSE Sources(n - 1)
         \cup { << l >> \o s : l \in { << 97, 10 >>, Sentinel \o << 10 >> },
                               s \in { x \in Sources(n - 1) : Len(x) = n - 1 } }

CopySources ==
    { s \o tl : s \in Sources(MaxLines),
                tl \in { << >>, << << 97 >> >>, << Sentinel >> } }

\* what the server sends for COPY: the requests G and H, H with its lines
\* (one ending in '\.', one empty) and, once, the completion of the command
CopyMenu ==
    { << TagG >>, Msg_Z, Msg_str(TagC, strC),
      << TagH >> \o << 97, 92, 46, 10 >> \o Sentinel \o << 10 >>,
      << TagH >> \o << 10, 98, 10 >> \o Sentinel \o << 10 >>
        \o Msg_str(TagC, strC) }

\* an established session that copies
NextCopy ==
    \/ Execute(<< 115 >>)
    \/ ExecuteReturn
    \/ pkt_C \/ pkt_G \/ pkt_H \/ pkt_Z
    \/ ConnectionClosed
    \/ Peer(CopyMenu)

SpecCopy ==
    (\E src \in CopySources : Connected(src, EmptyDict) /\ dsn = None)
      /\ [][NextCopy]_vars

\* how many key=value pairs a connection string holds at most
MaxPairs == 2

\* the pairs a caller writes: a key 'a' or 'b'; the '=' bare or with a space
\* on either side; a value that is the word 'x=', or quoted: '' or 'y z'
DsnPairs ==
    { p \in [key : { << 97 >>, << 98 >> },
             spaced : BOOLEAN,
             quoted : BOOLEAN,
             value : { << 120, 61 >>, << >>, << 121, 32, 122 >> }] :
        p.quoted <=> p.value # << 120, 61 >> }

RECURSIVE PairLists(_)
PairLists(n) ==
    IF n = 0 THEN { << >> }
    ELSE PairLists(n - 1)
         \cup { Append(l, p) : l \in { x \in PairLists(n - 1) : Len(x) = n - 1 },
                               p \in DsnPairs }

\* the pair as it is written
RenderPair(p) ==
    p.key \o (IF p.spaced THEN << ChSpace, ChEq, ChSpace >> ELSE << ChEq >>)
      \o (IF p.quoted THEN << ChQuote >> \o p.value \o << ChQuote >>
          ELSE p.value)

\* the pairs of l written one after the other with sep between them
RECURSIVE Render(_, _)
Render(l, sep) ==
    IF l = << >> THEN << >>
    ELSE IF Len(l) = 1 THEN RenderPair(l[1])
    ELSE RenderPair(l[1]) \o << sep >> \o Render(Tail(l), sep)

\* the connection strings the caller passes: None, the pairs separated by
\* a space, and two pairs separated by a tab or a newline
DsnInputs ==
    { None } \cup { Some(Render(l, sep)) : l \in PairLists(MaxPairs),
                                         sep \in { ChSpace } }
             \cup { Some(Render(l, sep)) :
                      l \in { x \in PairLists(2) :
                                Len(x) = 2 /\ ~x[1].quoted /\ ~x[1].spaced
                                /\ ~x[2].spaced },
                      sep \in { 9, 10 } }

\* how many rows the server answers a query with at most
MaxRows == 3

\* the answer to a SELECT that finds n rows of one column: the values are
\* '1', '2', ... in this order
RECURSIVE RowMsgs(_)
RowMsgs(n) ==
    IF n = 0 THEN << >>
    ELSE RowMsgs(n - 1) \o Msg_row(TagD, << Some(<< 48 + n >>) >>, 1)

RowsResponse(n) ==
    Msg_str(TagP, << >>) \o Msg_T(OneColumn) \o RowMsgs(n)
      \o Msg_str(TagC, strC) \o Msg_Z

\* answers with rows, the answer to a statement that returns none, an error
CursorMenu ==
    { RowsResponse(n) : n \in 0..MaxRows }
      \cup { Msg_str(TagC, strC) \o Msg_Z, Msg_str(TagE, strE) \o Msg_Z }

\* a caller with a cursor: execute, and the calls on the cursor
NextCursor ==
    \/ CursorExecute(<< 115 >>)
    \/ CursorExecuteReturn
    \/ \E value \in (0 - MaxRows - 1)..(MaxRows + 1) :
         \E mode \in {"relative", "absolute"} : CursorScroll(value, mode)
    \/ CursorFetchOne
    \/ \E size \in {None, Some(2)} : CursorFetchMany(size)
    \/ CursorFetchAll
    \/ CursorNext
    \/ CursorClose
    \/ pkt_C \/ pkt_D \/ pkt_E \/ pkt_P \/ pkt_T \/ pkt_Z
    \/ ConnectionClosed
    \/ Peer(CursorMenu)

SpecCursor == InitConnected /\ [][NextCursor]_vars

\* the largest number of fields of a row
MaxFields == 36

\* the field counts of the statements: none, around a byte of the bitmap,
\* around the four bytes up to which __read_row uses ints, and many
FieldCounts == {0, 1, 7, 8, 9, 31, 32, 33, MaxFields}

\* which fields of a row of n are there: all, none, every other one from
\* the first or from the second, the first only, the last only
Presences(n) ==
    { [i \in 1..n |-> TRUE], [i \in 1..n |-> FALSE],
      [i \in 1..n |-> i % 2 = 1], [i \in 1..n |-> i % 2 = 0],
      [i \in 1..n |-> i = 1], [i \in 1..n |-> i = n] }

\* the row with these fields: field i holds i % 3 bytes
RowOf(present) ==
    [i \in 1..Len(present) |->
       IF present[i] THEN Some([j \in 1..(i % 3) |-> 48 + j]) ELSE None]

ColumnsOf(n) == [i \in 1..n |-> OneColumn[1]]

\* the answer to a statement that finds these rows of n fields
RECURSIVE RowsOf(_, _, _)
RowsOf(tag, rows, ascii) ==
    IF rows = << >> THEN << >>
    ELSE Msg_row(tag, Head(rows), ascii) \o RowsOf(tag, Tail(rows), ascii)

Answer(n, tag, rows) ==
    Msg_str(TagP, << >>) \o Msg_T(ColumnsOf(n))
      \o RowsOf(tag, rows, IF tag = TagD THEN 1 ELSE 0)
      \o Msg_str(TagC, strC)

\* what the server answers a query with: one statement with one row, as a
\* text row or a binary row; two statements with rows, and an error between
\* two statements
RowAnswers ==
    UNION { { Answer(n, tag, << RowOf(p) >>) \o Msg_Z :
                tag \in {TagD, TagB}, p \in Presences(n) } :
            n \in FieldCounts }
      \cup { Answer(1, TagD, << << Some(<< 49 >>) >>, << Some(<< 50 >>) >> >>)
               \o Answer(2, TagD, << << Some(<< 51 >>), None >> >>) \o Msg_Z,
             Answer(1, TagD, << << Some(<< 49 >>) >> >>) \o Msg_str(TagE, strE)
               \o Answer(1, TagB, << << None >>, << Some(<< 50 >>) >> >>)
               \o Msg_Z }

\* execute has sent its query, and the server has written its answer
InitRows ==
    /\ socket = "open" /\ address = Some(AddressOf([host |-> DefaultHost(FALSE)]))
    /\ input_buffer = << >>
    /\ authenticated = 1
    /\ ready = 0
    /\ result = Some(<< EmptyDict >>)
    /\ notify_queue = << >>
    /\ func_result = None
    /\ field_count = None
    /\ backend_key = Some(<< 9, 8 >>)
    /\ passwd = << 112 >> /\ userid = << 117 >>
    /\ \E m \in RowAnswers : \E k \in Cuts(m) :
         wire = Take(m, k) /\ srvPending = Drop(m, k)
    /\ peerClosed = FALSE /\ nsent = 1
    /\ op = "execute" /\ pc = "loop" /\ timeout = 0 /\ outcome = NoOutcome
    /\ nops = 1 /\ dsn = None
    /\ lo_funcs = EmptyDict /\ stdin = << >> /\ stdout = << >>
    /\ lobj = None /\ callargs = << >>
    /\ cursor = NewCursor(TRUE)
    /\ wrapper = NewWrapper
    /\ sent = << << TagQ, 115, 0 >> >>

\* the loop of execute over the answer
NextRows ==
    \/ pkt_B \/ pkt_C \/ pkt_D \/ pkt_E \/ pkt_P \/ pkt_T \/ pkt_Z
    \/ ExecuteReturn
    \/ Transmit

SpecRows == InitRows /\ [][NextRows]_vars

\* what the server writes to a client that understands none of it: any
\* byte and two more, at once or after a completed statement
TagAnswers ==
    { pre \o << b, 7, 90 >> :
        pre \in { << >>, Msg_str(TagC, strC) }, b \in 0..255 }

\* execute has sent its query, and the server has written these bytes
InitTags ==
    /\ socket = "open" /\ address = Some(AddressOf([host |-> DefaultHost(FALSE)]))
    /\ input_buffer = << >>
    /\ authenticated = 1
    /\ ready = 0
    /\ result = Some(<< EmptyDict >>)
    /\ notify_queue = << >>
    /\ func_result = None
    /\ field_count = None
    /\ backend_key = Some(<< 9, 8 >>)
    /\ passwd = << 112 >> /\ userid = << 117 >>
    /\ \E m \in TagAnswers : \E k \in Cuts(m) :
         wire = Take(m, k) /\ srvPending = Drop(m, k)
    /\ peerClosed = FALSE /\ nsent = 1
    /\ op = "execute" /\ pc = "loop" /\ timeout = 0 /\ outcome = NoOutcome
    /\ nops = 1 /\ dsn = None
    /\ lo_funcs = EmptyDict /\ stdin = << >> /\ stdout = << >>
    /\ lobj = None /\ callargs = << >>
    /\ cursor = NewCursor(TRUE)
    /\ wrapper = NewWrapper
    /\ sent = << << TagQ, 115, 0 >> >>

\* the dispatcher on these bytes
NextTags ==
    \/ UnknownTag
    \/ pkt_C \/ pkt_Z
    \/ ExecuteReturn
    \/ Transmit

SpecTags == InitTags /\ [][NextTags]_vars

\* how many bytes the server writes for the reads
MaxStream == 4

\* the byte strings of 0 and 'A' up to this length
RECURSIVE ByteStrings(_)
ByteStrings(n) ==
    IF n = 0 THEN { << >> }
    ELSE ByteStrings(n - 1)
         \cup { Append(s, b) : s \in { x \in ByteStrings(n - 1) : Len(x) = n - 1 },
                               b \in {0, 65} }

\* some of the bytes the server wrote reach the socket
Arrive ==
    /\ \E k \in 1..Len(srvPending) :
         /\ wire' = wire \o Take(srvPending, k)
         /\ srvPending' = Drop(srvPending, k)
    /\ UNCHANGED << client, peerClosed, nsent, caller, observed >>

\* an established session, and what the server has written to it
InitRead ==
    /\ socket = "open" /\ address = Some(AddressOf([host |-> DefaultHost(FALSE)]))
    /\ input_buffer = << >>
    /\ authenticated = 1
    /\ ready = 1
    /\ result = None
    /\ notify_queue = << >>
    /\ func_result = None
    /\ field_count = None
    /\ backend_key = Some(<< 9, 8 >>)
    /\ passwd = << 112 >> /\ userid = << 117 >>
    /\ wire = << >> /\ srvPending \in ByteStrings(MaxStream)
    /\ peerClosed = FALSE /\ nsent = 1
    /\ op = "none" /\ pc = "idle" /\ timeout = 0 /\ outcome = NoOutcome
    /\ nops = 0 /\ dsn = None
    /\ lo_funcs = EmptyDict /\ stdin = << >> /\ stdout = << >>
    /\ lobj = None /\ callargs = << >>
    /\ cursor = NewCursor(TRUE)
    /\ wrapper = NewWrapper
    /\ sent = << >>

\* reads of a number of bytes and of a string, while the bytes arrive
NextRead ==
    \/ \E n \in 0..(MaxStream - 1) : ReadBytesCall(n)
    \/ \E terminator \in {0, 65} : ReadStringCall(terminator)
    \/ ReadBytesStep
    \/ ReadStringStep
    \/ Arrive
    \/ PeerClose

SpecRead == InitRead /\ [][NextRead]_vars

\* what the server writes before it goes away: the handshake, a
\* notification, the answer to a function call, the answer to a statement
GoneMenu ==
    { Msg_R(0, << >>) \o Msg_Z, Msg_A(1, strN), Msg_V(Some(<< 0, 0, 0, 7 >>)),
      Msg_str(TagC, strC) \o Msg_Z }

\* a new PGClient, or an established session
InitGone == InitNew \/ InitConnected

\* every method that reads, and the reads themselves, with a server that
\* may close the connection at any time
NextGone ==
    \/ Connect(<< 117 >>, << 112 >>, << 100 >>)
    \/ ConnectReturn
    \/ Execute(<< 115 >>)
    \/ ExecuteReturn
    \/ Funcall(1, << IntArg(3) >>)
    \/ FuncallReturn
    \/ WaitForNotify(-1)
    \/ WaitReturn \/ WaitPoll
    \/ ReadBytesCall(2) \/ ReadBytesStep
    \/ ReadStringCall(0) \/ ReadStringStep
    \/ pkt_A \/ pkt_C \/ pkt_R \/ pkt_V \/ pkt_Z
    \/ ConnectionClosed
    \/ Peer(GoneMenu)

SpecGone == InitGone /\ [][NextGone]_vars

\* __send with every string of 0 and 'A' up to MaxStream bytes
NextSend ==
    \/ \E data \in ByteStrings(MaxStream) : SendCall(data)
    \/ SendStep

SpecSend == InitConnected /\ [][NextSend]_vars

\* what the server answers a function call with: no value, values of 0, 1
\* and 4 bytes, two values, a sub-tag that is neither 'G' nor '0' at once
\* or after a value; each alone or with the ready marker
FuncallMenu ==
    LET vs == { Msg_V(None), Msg_V(Some(<< >>)), Msg_V(Some(<< 9 >>)),
                Msg_V(Some(<< 0, 0, 0, 7 >>)),
                << TagV, TagG >> \o Pack_i(1) \o << 8, TagG >> \o Pack_i(2)
                  \o << 5, 6, Sub0 >>,
                << TagV, 120 >>,
                << TagV, TagG >> \o Pack_i(1) \o << 8, 120 >> }
    IN  vs \cup { v \o Msg_Z : v \in vs } \cup { Msg_Z }

\* function calls
NextFuncall ==
    \/ Funcall(1, << IntArg(3) >>)
    \/ FuncallReturn
    \/ pkt_V \/ pkt_Z
    \/ ConnectionClosed
    \/ Peer(FuncallMenu)

SpecFuncall == InitConnected /\ [][NextFuncall]_vars

\* the request the server answers next, when it is one request behind
Pending ==
    IF nsent + 1 # nops THEN "any"
    ELSE IF op # "none" THEN op ELSE outcome.op

\* what a server answers a request with, the ready marker last: a query
\* with its rows and completion or with an error, a function call with its
\* value or with an error
AnswersTo(kind) ==
    (IF kind = "funcall" THEN { }
     ELSE { SelectResponse(49) \o Msg_Z, Msg_str(TagC, strC) \o Msg_Z })
    \cup (IF kind = "execute" THEN { }
          ELSE { Msg_V(Some(<< 0, 0, 0, 7 >>)) \o Msg_Z, Msg_V(None) \o Msg_Z })
    \cup { Msg_str(TagE, strE) \o Msg_Z }

\* the server answers each request it got once
Respond == nsent < nops /\ ServerSend(AnswersTo(Pending))

\* queries and function calls against a server that answers each request
\* with one response
NextRequests ==
    \/ Execute(<< 115 >>)
    \/ ExecuteReturn
    \/ Funcall(1, << IntArg(3) >>)
    \/ FuncallReturn
    \/ pkt_C \/ pkt_D \/ pkt_E \/ pkt_P \/ pkt_T \/ pkt_V \/ pkt_Z
    \/ ConnectionClosed
    \/ Respond
    \/ ~CallerDone /\ (Transmit \/ PeerClose)

SpecRequests == InitConnected /\ [][NextRequests]_vars

\* the answer to one statement of a submission: a statement that finds two
\* rows of n fields, its P and T messages in either order, as text rows or
\* binary rows; a statement without rows; a statement that fails
Statements ==
    UNION { { (IF pFirst THEN Msg_str(TagP, << >>) \o Msg_T(ColumnsOf(n))
               ELSE Msg_T(ColumnsOf(n)) \o Msg_str(TagP, << >>))
                \o RowsOf(tag, << RowOf([i \in 1..n |-> TRUE]),
                                  RowOf([i \in 1..n |-> i = 1]) >>,
                          IF tag = TagD THEN 1 ELSE 0)
                \o Msg_str(TagC, strC) :
                pFirst \in BOOLEAN, tag \in {TagD, TagB} } : n \in 1..3 }
      \cup { Msg_str(TagC, strC), Msg_str(TagE, strE) }

\* execute has sent a submission of two statements, on a connection that
\* is new or has seen rows of two fields, and the server has written its
\* answer
InitDescr ==
    /\ socket = "open" /\ address = Some(AddressOf([host |-> DefaultHost(FALSE)]))
    /\ input_buffer = << >>
    /\ authenticated = 1
    /\ ready = 0
    /\ result = Some(<< EmptyDict >>)
    /\ notify_queue = << >>
    /\ func_result = None
    /\ field_count \in {None, Some(2)}
    /\ backend_key = Some(<< 9, 8 >>)
    /\ passwd = << 112 >> /\ userid = << 117 >>
    /\ \E s1 \in Statements, s2 \in Statements :
         LET m == s1 \o s2 \o Msg_Z IN
         \E k \in Cuts(m) : wire = Take(m, k) /\ srvPending = Drop(m, k)
    /\ peerClosed = FALSE /\ nsent = 1
    /\ op = "execute" /\ pc = "loop" /\ timeout = 0 /\ outcome = NoOutcome
    /\ nops = 1 /\ dsn = None
    /\ lo_funcs = EmptyDict /\ stdin = << >> /\ stdout = << >>
    /\ lobj = None /\ callargs = << >>
    /\ cursor = NewCursor(TRUE)
    /\ wrapper = NewWrapper
    /\ sent = << << TagQ, 115, 0 >> >>

\* the loop of execute over the answer to two statements
NextDescr ==
    \/ pkt_B \/ pkt_C \/ pkt_D \/ pkt_E \/ pkt_P \/ pkt_T \/ pkt_Z
    \/ ExecuteReturn
    \/ Transmit

SpecDescr == InitDescr /\ [][NextDescr]_vars

\* the statements a caller passes to the wrapper: 'select 1', 'INSERT x',
\* 'create t', 'begin', 'COMMIT', 'rollback'
Commands ==
    { << 115, 101, 108, 101, 99, 116, 32, 49 >>,
      << 73, 78, 83, 69, 82, 84, 32, 120 >>,
      << 99, 114, 101, 97, 116, 101, 32, 116 >>,
      << 98, 101, 103, 105, 110 >>, strCOMMIT,
      << 114, 111, 108, 108, 98, 97, 99, 107 >> }

\* calls of the wrapper in any order
NextDjango ==
    \/ \E cmd \in Commands : WrapperExecute(cmd)
    \/ WrapperCommit
    \/ WrapperRollback

SpecDjango == InitConnected /\ [][NextDjango]_vars

\* the parser of connection strings
SpecDSN ==
    (\E s \in DsnInputs : Connected(<< >>, EmptyDict) /\ dsn = s)
      /\ [][ParseDSNCall]_vars

\* how many parameters an execute takes at most
MaxParams == 2

\* the parameters a caller passes: None, numbers, and strings of 'a', the
\* quote and the backslash
ParamValues ==
    { ParamNone } \cup { ParamNum(n) : n \in {7, -3} }
      \cup { ParamStr(s) : s \in { << >>, << 97 >>, << ChQuote >>, << 92 >>,
                                 << 97, ChQuote >> } }

ParamLists ==
    UNION { [1..n -> ParamValues] : n \in 0..MaxParams }

\* the statement 'S' followed by ' %s' for each of n parameters
RECURSIVE Statement(_)
Statement(n) ==
    IF n = 0 THEN << 83 >> ELSE Statement(n - 1) \o << 32, 37, 115 >>

\* execute with parameters, with one parameter too few, and with a '%' that
\* is no conversion, without parameters and with none
NextParams ==
    \/ \E args \in ParamLists : ExecuteArgs(Statement(Len(args)), Some(args))
    \/ ExecuteArgs(Statement(1), Some(<< >>))
    \/ \E args \in {None, Some(<< >>)} : ExecuteArgs(<< 83, 37 >>, args)
    \/ ExecuteReturn
    \/ pkt_C \/ pkt_Z
    \/ ConnectionClosed
    \/ Peer({ Msg_str(TagC, strC) \o Msg_Z })

SpecParams == InitConnected /\ [][NextParams]_vars

\* what a connection string gives for each keyword, and what the keyword
\* parameters of the same call give: dsn "host=h port=7 dbname=d user=u
\* password=p options=o" against user='v', password='q', host='k' (or
\* None), database='e', port=8, opt='r'
DsnValue ==
    [host |-> << 104 >>, port |-> << 55 >>, dbname |-> << 100 >>,
     user |-> << 117 >>, password |-> << 112 >>, options |-> << 111 >>]

ConnectKeywords ==
    [user : { << 118 >> }, password : { << 113 >> },
     host : { None, Some(<< 107 >>) }, database : { << 101 >> },
     port : { 8 }, opt : { << 114 >> }]

\* the connection string that gives the keywords of `keys` their DsnValue,
\* in the order of `order`
RECURSIVE DsnOf(_, _)
DsnOf(order, keys) ==
    IF order = << >> THEN << >>
    ELSE LET k == Head(order)
             rest == DsnOf(Tail(order), keys) IN
         IF k \notin keys THEN rest
         ELSE Keyword[k] \o << ChEq >> \o DsnValue[k]
                \o (IF rest = << >> THEN << >> ELSE << ChSpace >> \o rest)

\* connecting with a connection string, keyword parameters, or both
NextConnect ==
    \/ \E kw \in ConnectKeywords : \E win32 \in BOOLEAN : ConnectDSN(kw, win32)
    \/ ConnectReturn
    \/ pkt_R \/ pkt_Z
    \/ ConnectionClosed
    \/ op = "connect" /\ Peer({ Msg_R(0, << >>) \o Msg_Z })

SpecConnect ==
    (\E keys \in SUBSET DOMAIN Keyword :
       /\ Fresh
       /\ dsn \in { None, Some(DsnOf(<< "host", "port", "dbname", "user",
                                       "password", "options" >>, keys)) })
      /\ [][NextConnect]_vars

\* large objects.  The columns of the catalog query: proname (type name,
\* oid 19) and oid (type oid, 26)
CatalogColumns == << << << 112 >>, 19, 64, -1 >>, << << 111 >>, 26, 4, -1 >> >>

\* rows of pg_proc: the name of a function and the digits of its oid (952,
\* 953, 956, 957, 964, 954, 955, 958)
CatalogRows ==
    << << Some(LoName.open), Some(<< 57, 53, 50 >>) >>,
       << Some(LoName.close), Some(<< 57, 53, 51 >>) >>,
       << Some(LoName.lseek), Some(<< 57, 53, 54 >>) >>,
       << Some(LoName.creat), Some(<< 57, 53, 55 >>) >>,
       << Some(LoName.unlink), Some(<< 57, 54, 52 >>) >>,
       << Some(LoName.read), Some(<< 57, 53, 52 >>) >>,
       << Some(LoName.write), Some(<< 57, 53, 53 >>) >>,
       << Some(LoName.tell), Some(<< 57, 53, 56 >>) >> >>

\* what the server answers to the catalog query when it finds rows
RECURSIVE EncRows(_)
EncRows(rows) ==
    IF rows = << >> THEN << >>
    ELSE Msg_row(TagD, Head(rows), 1) \o EncRows(Tail(rows))

CatalogResponse(rows) ==
    Msg_str(TagP, << >>) \o Msg_T(CatalogColumns) \o EncRows(rows)
      \o Msg_str(TagC, strC)

\* the bursts of the server: the catalog whole, without lo_lseek and
\* lo_creat, or without any row; the result of a function, or none; an
\* error; each with the Z that ends the response, and Z alone
LoMenu ==
    { CatalogResponse(CatalogRows) \o Msg_Z,
      CatalogResponse(SubSeq(CatalogRows, 1, 2)) \o Msg_Z,
      CatalogResponse(<< >>) \o Msg_Z,
      Msg_V(Some(<< 0, 0, 0, 7 >>)) \o Msg_Z,
      Msg_V(None) \o Msg_Z,
      Msg_str(TagE, strE) \o Msg_Z,
      Msg_Z }

\* the connection before its first large-object method, after the catalog
\* was loaded, and with a _LargeObject that lo_open returned
LoInits ==
    LET loaded == lo_init_rows(CatalogRows, EmptyDict).funcs IN
    { [catalog |-> EmptyDict, lobj |-> None],
      [catalog |-> loaded, lobj |-> None],
      [catalog |-> loaded, lobj |-> Some([LargeObject(7) EXCEPT !.ref = "caller"])] }

\* the oid of the large object the caller works on
LoOid == 17

NextLo ==
    \/ lo_create(INV_READ + INV_WRITE)
    \/ lo_open(LoOid, INV_READ)
    \/ lo_unlink(LoOid)
    \/ LoInitDone \/ LoCallDone \/ LoSeek \/ LoSeekDone
    \/ LobjClose \/ LobjDel
    \/ pkt_C \/ pkt_D \/ pkt_E \/ pkt_P \/ pkt_T \/ pkt_V \/ pkt_Z
    \/ ConnectionClosed
    \/ Peer(LoMenu)

SpecLo ==
    (\E i \in LoInits : ConnectedHolding(<< >>, i.catalog, i.lobj) /\ dsn = None)
      /\ [][NextLo]_vars

\* the methods of a _LargeObject.  The bursts of the server: the result
\* of a function, or none, or an error, each with its Z, and Z alone
LobjMenu ==
    { Msg_V(Some(<< 0, 0, 0, 5 >>)) \o Msg_Z,
      Msg_V(None) \o Msg_Z,
      Msg_str(TagE, strE) \o Msg_Z,
      Msg_Z }

NextLobj ==
    \/ LobjRead(4)
    \/ LobjWrite(<< 104 >>)
    \/ LobjSeek(5, SEEK_SET)
    \/ LobjTell
    \/ LobjClose
    \/ LoCallDone
    \/ pkt_E \/ pkt_V \/ pkt_Z
    \/ ConnectionClosed
    \/ Peer(LobjMenu)

\* the caller holds the _LargeObject of descriptor 7 that lo_open returned
InitLobj ==
    /\ ConnectedHolding(<< >>, lo_init_rows(CatalogRows, EmptyDict).funcs,
                        Some([LargeObject(7) EXCEPT !.ref = "caller"]))
    /\ dsn = None

SpecLobj == InitLobj /\ [][NextLobj]_vars

\* the handshake
NextAuth ==
    \/ \E pw \in {<< 112 >>, << >>} : Connect(<< 117 >>, pw, << 100 >>)
    \/ ConnectReturn
    \/ pkt_R \/ pkt_K \/ pkt_E \/ pkt_A \/ pkt_Z
    \/ UnknownTag \/ ConnectionClosed
    \/ op = "connect" /\ Peer(AuthMenu)

SpecAuth == InitNew /\ [][NextAuth]_vars


(***************************************************************************)
(* Properties.                                                             *)
(***************************************************************************)
\* the step dispatches the message at the head of the stream, which has the
\* tag `tag` and is complete
Dispatches(tag) ==
    Reading /\ Stream # << >> /\ Head(Stream) = tag /\ Frame.ok /\ Consumed

\* the bytes s hold complete messages up to and including a Z message
RECURSIVE ReadyAhead(_, _)
ReadyAhead(s, fc) ==
    /\ s # << >>
    /\ \/ Head(s) = TagZ
       \/ LET f == FrameOf(s, fc) IN
          /\ f.ok
          /\ ReadyAhead(Drop(s, 1 + f.used),
                        IF Head(s) = TagT THEN Some(f.nFields) ELSE fc)

InRequest == op \in {"execute", "funcall"}

\* ---------------------------------------------------------------- C1
C1_ErrorStep ==
    (op = "execute" /\ Dispatches(TagE)) =>
        /\ op' = "execute" /\ outcome' = outcome
        /\ Truthy(result)
        /\ result' = Some(Front(Val(result))
                            \o << SetKey(Last(Val(result)), "error",
                                         Read_str(Payload).str),
                                  EmptyDict >>)

C1_BlocksKept ==
    (op = "execute" /\ op' = "execute") =>
        /\ Len(Val(result')) >= Len(Val(result))
        /\ \A i \in 1..(Len(Val(result)) - 1) : Val(result')[i] = Val(result)[i]

\* C1: while execute runs, a complete E message never raises: its string
\* becomes the 'error' of the block that is last at that moment and a fresh
\* empty block is opened behind it; and no step of execute changes or drops a
\* block that is not the last, so the other statements' results are kept.
C1_ErrorAttached == [][C1_ErrorStep /\ C1_BlocksKept]_vars

\* the messages of 'SELECT 1; BOGUS; SELECT 2': execute returned three
\* blocks, rows [[1]], the error, rows [[2]]
C1_ThreeBlocks ==
    /\ outcome.op = "execute" /\ outcome.kind = "return"
    /\ Len(outcome.value) = 3
    /\ HasKey(outcome.value[1], "rows")
    /\ outcome.value[1]["rows"] = << << Some(<< 49 >>) >> >>
    /\ DOMAIN outcome.value[2] = {"error"}
    /\ outcome.value[2]["error"] = strE
    /\ HasKey(outcome.value[3], "rows")
    /\ outcome.value[3]["rows"] = << << Some(<< 50 >>) >> >>

\* ---------------------------------------------------------------- C2
\* C2: an execute of a single statement that the server answered with an
\* error response (the only block carries the error and nothing else) does
\* not return normally: it ends by raising a subclass of Error.
C2_SingleErrorRaises ==
    (/\ outcome.op = "execute"
     /\ Len(outcome.value) = 1
     /\ DOMAIN outcome.value[1] = {"error"})
        => (outcome.kind = "raise" /\ IsSubclass(outcome.exc, "Error"))

\* ---------------------------------------------------------------- C3
C3_ErrorStep ==
    (op \in {"connect", "funcall", "wait_for_notify"} /\ Dispatches(TagE)) =>
        /\ op' = "none"
        /\ outcome'.kind = "raise" /\ outcome'.exc = "DatabaseError"
        /\ result' = result

\* C3: a complete E message dispatched while connect, funcall or
\* wait_for_notify runs raises DatabaseError, which ends the operation, and
\* leaves the result blocks as they were.
C3_ErrorOutsideExecuteRaises == [][C3_ErrorStep]_vars

\* ---------------------------------------------------------------- C4
C4_ReturnStep ==
    (op = "execute" /\ op' = "none" /\ outcome'.kind = "return") =>
        /\ DOMAIN Last(Val(result)) = {}
        /\ outcome'.value = Front(Val(result))

\* C4: when execute returns, the block it drops (the last one) is empty: it
\* has no 'description', 'rows', 'completed' or 'error'; and what it returns
\* is the other blocks in their order.
C4_DroppedBlockEmpty == [][C4_ReturnStep]_vars

\* ---------------------------------------------------------------- C5
\* C5: whenever connect has returned normally the connection is
\* authenticated.
C5_ReturnImpliesAuthenticated ==
    (outcome.op = "connect" /\ outcome.kind = "return") => authenticated = 1

\* ---------------------------------------------------------------- C6
C6_Step ==
    (/\ op = "connect" /\ Dispatches(TagR)
     /\ Unpack_i(SubSeq(Stream, 2, 5)) \notin {0, 3, 4, 5}) =>
        /\ op' = "none"
        /\ outcome'.op = "connect" /\ outcome'.kind = "raise"
        /\ outcome'.exc = "InterfaceError"
        /\ sent' = sent
        /\ authenticated' = authenticated

\* C6: an R message whose code is 1 or 2 or any other value outside
\* {0, 3, 4, 5} makes connect raise InterfaceError; the step sends nothing
\* and does not change the authenticated flag.
C6_UnsupportedAuth == [][C6_Step]_vars

\* connect failed on the unknown code 6 after it had answered a request for
\* the cleartext password: the startup packet and that answer are all it sent
C6_UnknownCodeRefused ==
    /\ outcome.op = "connect" /\ outcome.kind = "raise"
    /\ outcome.exc = "InterfaceError"
    /\ outcome.args = Args("Unknown startup response code", << 6 >>)
    /\ Len(sent) = 2
    /\ authenticated = 0

\* ---------------------------------------------------------------- C7
C7_Step ==
    (/\ op = "connect" /\ Dispatches(TagR)
     /\ Unpack_i(SubSeq(Stream, 2, 5)) = 5) =>
        LET salt == SubSeq(Stream, 6, 9)
            inner == HexOf(Md5Digest(passwd \o userid))
            outer == HexOf(Md5Digest(inner \o salt))
            body == << 109, 100, 53 >> \o outer \o << 0 >>
            msg == Pack_i(4 + Len(body)) \o body
        IN  /\ Len(salt) = 4
            /\ input_buffer' \o wire' = Drop(Stream, 9)
            /\ Unpack_i(Take(msg, 4)) = Len(msg)
            /\ sent' = Append(sent, msg)
            /\ op' = "connect"

\* C7: on an R message with code 5 the client consumes exactly the tag, the
\* code and 4 salt bytes, and sends exactly one message: a 4-byte big-endian
\* length equal to the length of the whole message, 'md5', the hex digest of
\* (the hex digest of password + username, then the salt), and a null byte.
C7_Md5Response == [][C7_Step]_vars

\* connect, with the password 'p', has answered a code 5 request
C7_Md5Sent ==
    /\ op = "connect" /\ passwd = << 112 >>
    /\ Len(sent) = 2
    /\ Len(sent[2]) = 40
    /\ SubSeq(sent[2], 5, 7) = << 109, 100, 53 >>

\* ---------------------------------------------------------------- C8
C8_Step ==
    /\ (op = "none" /\ op' \in {"execute", "funcall"}) =>
           (ready' = 0 /\ sent' # << >>)
    /\ (ready = 0 /\ ready' = 1) => Dispatches(TagZ)
    /\ (InRequest /\ op' = op /\ Consumed) =>
           input_buffer' \o wire' = Drop(Stream, 1 + Frame.used)
    /\ (InRequest /\ op' = "none" /\ outcome'.kind = "return") => ready = 1

\* C8: execute and funcall start by clearing the ready flag and sending
\* their request; the flag is set again only by the dispatch of a Z message;
\* every step of their loop consumes exactly one message; they return only
\* with the flag set; and once complete messages up to a Z message have been
\* written by the server, the call ends.
C8_UntilReady ==
    /\ [][C8_Step]_vars
    /\ (InRequest /\ ReadyAhead(Stream \o srvPending, field_count))
           ~> (op = "none")

\* funcall returned the value of the V message that preceded Z
C8_FuncallReturned ==
    /\ outcome.op = "funcall" /\ outcome.kind = "return"
    /\ outcome.value = Some(<< 0, 0, 0, 7 >>)
    /\ ready = 1

\* ---------------------------------------------------------------- C9
C9_Step ==
    /\ Dispatches(TagA) =>
           /\ op' = op
           /\ notify_queue' =
                  Append(notify_queue, << Read_A(Payload).name,
                                          Unpack_i(SubSeq(Stream, 2, 5)) >>)
    /\ (op = "wait_for_notify" /\ pc = "check" /\ notify_queue # << >>
          /\ << op, pc >>' # << op, pc >>) =>
           /\ op' = "none"
           /\ outcome'.kind = "return"
           /\ outcome'.value = Head(notify_queue)
           /\ notify_queue' = Tail(notify_queue)
           /\ UNCHANGED << input_buffer, wire >>
    /\ notify_queue' # notify_queue =>
           \/ Dispatches(TagA)
           \/ op = "wait_for_notify" /\ pc = "check" /\ op' = "none"

\* C9: every A message dispatched, in execute or in wait_for_notify, is
\* appended to the queue as (name, pid); wait_for_notify with a non-empty
\* queue returns its oldest entry and removes it, without taking a byte from
\* the buffer or the socket; nothing else changes the queue.
C9_NotifyFifo == [][C9_Step]_vars

\* two notifications were queued during an execute; wait_for_notify returned
\* the older one and left the newer one
C9_OldestFirst ==
    /\ outcome.op = "wait_for_notify" /\ outcome.kind = "return"
    /\ outcome.value = << strN, 1 >>
    /\ notify_queue = << << strM, 2 >> >>

\* ---------------------------------------------------------------- C10
Idle ==
    /\ notify_queue = << >>
    /\ input_buffer = << >>
    /\ ~Readable

C10_Step ==
    /\ (op # "none" /\ op' = "none" /\ outcome'.exc = "PostgreSQL_Timeout") =>
           /\ op = "wait_for_notify" /\ pc = "check"
           /\ Idle /\ timeout >= 0
    /\ (op = "wait_for_notify" /\ pc = "check" /\ Idle /\ timeout >= 0
          /\ << op, pc >>' # << op, pc >>) =>
           (outcome'.kind = "raise" /\ outcome'.exc = "PostgreSQL_Timeout")
    /\ (op = "wait_for_notify" /\ pc = "read" /\ << op, pc >>' # << op, pc >>) =>
           /\ outcome'.exc # "PostgreSQL_Timeout"
           /\ op' = op => input_buffer' \o wire' = Drop(Stream, 1 + Frame.used)

\* C10: wait_for_notify raises PostgreSQL_Timeout only from the top of its
\* loop, with the queue empty, the buffer empty, the socket not readable and
\* a timeout >= 0, and in that situation it does nothing else; once it reads
\* a message it consumes the whole message and does not time out.
C10_TimeoutAtBoundary == [][C10_Step]_vars

\* the first call, wait_for_notify, dispatched a whole message and then
\* timed out
C10_TimedOutAfterMessage ==
    /\ outcome.op = "wait_for_notify" /\ outcome.exc = "PostgreSQL_Timeout"
    /\ nops = 1 /\ nsent >= 1
    /\ input_buffer = << >> /\ wire = << >> /\ srvPending = << >>
    /\ ~peerClosed

\* ---- C11
\* the step is a call of close() or a run of the destructor
C11_CloseStep == nops' = nops + 1 /\ outcome'.op \in {"close", "__del__"}

\* the step passed the termination byte to socket.send
C11_SendsX == sent' # sent /\ \E i \in 1..Len(sent') : sent'[i] = << TagX >>

NewSends == SubSeq(sent', Len(sent) + 1, Len(sent'))

\* C12: copy-in always ends by sending the sentinel line: whatever the source
\* holds, _pkt_G returns to the loop of its method without raising, and the
\* last thing it sends is '\.' and a newline, sent once, after a newline of
\* its own when the last line forwarded had none.
C12_CopyInTerminated ==
    [][Dispatches(TagG) =>
         /\ op' = op
         /\ NewSends # << >>
         /\ Last(NewSends) = Sentinel \o << 10 >>
         /\ Cardinality({i \in 1..Len(NewSends) :
                           NewSends[i] = Sentinel \o << 10 >>}) = 1
         /\ Len(NewSends) >= 2 =>
              Last(NewSends[Len(NewSends) - 1]) = 10]_vars

\* ---- C13
\* the place of the first line '\.\n' of the source, or one past its end
FirstSentinel(src) ==
    LET hits == {i \in 1..Len(src) : src[i] = Sentinel \o << 10 >>} IN
    IF hits = {} THEN Len(src) + 1
    ELSE CHOOSE i \in hits : \A j \in hits : i <= j

SentinelEnd(s) ==
    LET ends == {e \in 3..Len(s) :
                   /\ s[e] = 10 /\ SubSeq(s, e - 2, e - 1) = Sentinel
                   /\ e = 3 \/ s[e - 3] = 10} IN
    CHOOSE e \in ends : \A f \in ends : e <= f

\* C14: during copy-out the lines that arrive before the first line '\.'
\* are written to the sink in their order, each followed by a newline, that
\* is, the sink receives the bytes that precede the sentinel line; the
\* sentinel line is not written, and the bytes after it stay unread for the
\* dispatcher.
C14_CopyOutUpToSentinel ==
    [][Dispatches(TagH) =>
         LET e == SentinelEnd(Payload) IN
         /\ stdout' = stdout \o SubSeq(Payload, 1, e - 3)
         /\ input_buffer' \o wire' = SubSeq(Payload, e + 1, Len(Payload))
         /\ op' = op]_vars

\* a copy-out of an empty line and the line 'b' has run: both are in the
\* sink, and the message that followed the sentinel line is still unread
C14_TwoLinesOut ==
    /\ op = "execute"
    /\ stdout = << 10, 98, 10 >>
    /\ Stream # << >> /\ Head(Stream) = TagC

\* ---- C15
\* the mapping the pairs of l stand for: each key to its value, a later
\* pair replacing an earlier one of the same key
RECURSIVE MappingOf(_)
MappingOf(l) ==
    IF l = << >> THEN EmptyDict
    ELSE SetKey(MappingOf(Front(l)), Last(l).key, Last(l).value)

\* parseDSN has returned
Parsed == outcome.op = "parseDSN" /\ outcome.kind = "return"

\* C15: parseDSN maps every well-formed connection string to one entry per
\* key: for pairs separated by a space, each a key, '=' with or without
\* spaces around it, and a value that is a word or is quoted, the result
\* maps each key to its value without the quotes and has as many entries as
\* there are distinct keys; None and the empty string give the empty mapping.
C15_WellFormedParsed ==
    Parsed =>
      /\ (IsNone(dsn) \/ Val(dsn) = << >>) => DOMAIN Val(outcome.value) = {}
      /\ \A l \in PairLists(MaxPairs) :
           dsn = Some(Render(l, ChSpace)) =>
             /\ Val(outcome.value) = MappingOf(l)
             /\ Cardinality(DOMAIN Val(outcome.value))
                  = Cardinality({ l[i].key : i \in 1..Len(l) })

\* "a = 'y z' b=x=" was parsed into two entries
C15_TwoPairsParsed ==
    /\ Parsed
    /\ dsn = Some(<< 97, 32, 61, 32, 39, 121, 32, 122, 39, 32, 98, 61, 120, 61 >>)
    /\ DOMAIN Val(outcome.value) = { << 97 >>, << 98 >> }
    /\ Val(outcome.value)[<< 97 >>] = << 121, 32, 122 >>

\* ---- C16
\* C16: in parseDSN an unquoted value is terminated by whitespace: when a
\* space, a tab or a newline follows it, the value of the key ends just
\* before that character and what comes after it is parsed as the next pair.
C16_WhitespaceTerminates ==
    Parsed =>
      \A sep \in { ChSpace, 9, 10 } :
        \A l \in PairLists(2) :
          (/\ Len(l) = 2 /\ ~l[1].quoted /\ ~l[1].spaced /\ ~l[2].spaced
           /\ dsn = Some(Render(l, sep)))
            => Val(outcome.value) = MappingOf(l)

\* ---- C17
\* what connect used: the host and port it connected to, the credentials it
\* stored, and the startup packet it sent
Used(host, port, dbname, user, password, options) ==
    /\ address' = Some(IF Head(host) = 47
                       THEN [family |-> "AF_UNIX", host |-> host, port |-> 0]
                       ELSE [family |-> "AF_INET", host |-> host, port |-> port])
    /\ userid' = user
    /\ passwd' = password
    /\ sent' = << StartupPacket(dbname, user, options) >>

\* C17: in connect, for each of host, port, dbname, user, password and
\* options the value used is that of the connection string when it has the
\* key, and otherwise the keyword parameter: a keyword parameter never
\* overrides a key of the connection string.
C17_DsnOverKeywords ==
    [][\A kw \in ConnectKeywords : \A win32 \in BOOLEAN :
         \A keys \in SUBSET DOMAIN Keyword :
           (/\ op = "none" /\ op' = "connect"
            /\ dsn = Some(DsnOf(<< "host", "port", "dbname", "user",
                                   "password", "options" >>, keys))
            /\ ConnectDSN(kw, win32))
             => Used(IF "host" \in keys THEN << 104 >>
                     ELSE IF IsNone(kw.host) THEN DefaultHost(win32)
                     ELSE Val(kw.host),
                     IF "port" \in keys THEN 7 ELSE kw.port,
                     IF "dbname" \in keys THEN << 100 >> ELSE kw.database,
                     IF "user" \in keys THEN << 117 >> ELSE kw.user,
                     IF "password" \in keys THEN << 112 >> ELSE kw.password,
                     IF "options" \in keys THEN << 111 >> ELSE kw.opt)]_vars

\* connect ran with "port=7 user=u" and host='k', password='q': it went to
\* ('k', 7) as user 'u' with password 'q'
C17_MixedSources ==
    /\ dsn = Some(Keyword.port \o << ChEq, 55, ChSpace >> \o Keyword.user
                    \o << ChEq, 117 >>)
    /\ address = Some([family |-> "AF_INET", host |-> << 107 >>, port |-> 7])
    /\ userid = << 117 >> /\ passwd = << 113 >>
    /\ op = "connect"

\* the step starts lo_unlink on a loaded catalog that names lo_unlink, or
\* ends the loading of such a catalog inside lo_unlink
UnlinkPastCatalog ==
    \/ /\ op = "none" /\ nops' = nops + 1
       /\ op' = "lo_unlink" \/ outcome'.op = "lo_unlink"
       /\ HasKey(lo_funcs, Some(LoName.unlink))
    \/ /\ op = "lo_unlink" /\ pc = "init" /\ ready # 0
       /\ lo_init(Front(Val(result)), lo_funcs).exc = ""
       /\ HasKey(lo_funcs', Some(LoName.unlink))

\* C18: lo_unlink(oid) is carried out as a function call: once the catalog
\* is loaded, it sends one function-call message with the catalog's
\* identifier of 'lo_unlink' and the oid as its one argument, and goes on
\* to wait for ready instead of raising.
C18_UnlinkIsFunctionCall ==
    [][UnlinkPastCatalog =>
         /\ op' = "lo_unlink" /\ pc' = "call" /\ ready' = 0
         /\ (IF op = "none" THEN sent' ELSE NewSends) =
              FuncallSends(lo_funcs'[Some(LoName.unlink)],
                           << IntArg(callargs'[1]) >>)]_vars

\* the catalog query is among the messages s
QueryIn(s) == \E i \in 1..Len(s) : s[i] = << TagQ >> \o LoQuery \o << 0 >>

\* the step sends the catalog query
SendsQuery == IF nops' # nops THEN QueryIn(sent') ELSE QueryIn(NewSends)

\* C19 as stated: the catalog query is sent at most once on a connection, by
\* its first large-object operation: no later operation sends it.
C19_QueriedOnce == [][SendsQuery => nops = 0]_vars

\* C19: the catalog is memoized once it holds an entry: a large-object
\* operation sends the catalog query when, and only when, the catalog is
\* empty as it starts, and a catalog that holds an entry is never emptied.
C19_MemoizedOnceLoaded ==
    [][/\ SendsQuery <=>
            /\ op = "none" /\ op' \in {"lo_create", "lo_open", "lo_unlink"}
            /\ DOMAIN lo_funcs = {}
       /\ DOMAIN lo_funcs # {} => DOMAIN lo_funcs' # {}]_vars

\* a second operation goes to its function call without the query, on the
\* catalog of two functions a load on this connection made
C19_LoadedNotQueried ==
    /\ DOMAIN lo_funcs = {Some(LoName.open), Some(LoName.close)}
    /\ nops = 2 /\ op = "lo_open" /\ pc = "call"
    /\ ~QueryIn(sent)

\* C20: close of a _LargeObject invalidates it whether lo_close returns or
\* raises: once close has ended the object has neither its connection nor
\* its descriptor, and over any closes and the destructor the lo_close
\* function call is sent at most once for it.
C20_ClosedOnce ==
    ~IsNone(lobj) =>
      /\ Val(lobj).closes <= 1
      /\ (op = "none" /\ outcome.op = "lobj_close") =>
           ~Val(lobj).client /\ IsNone(Val(lobj).fd)

\* close raised the error of the server, after sending lo_close, and left
\* the object invalid
C20_CloseRaised ==
    /\ ~IsNone(lobj) /\ Val(lobj).closes = 1
    /\ outcome.op = "lobj_close" /\ outcome.exc = "DatabaseError"
    /\ ~Val(lobj).client

\* the step starts a method of the _LargeObject, which ends in it or goes on
LobjCalled ==
    /\ op = "none" /\ nops' = nops + 1
    /\ op' \in LobjOps \/ (op' = "none" /\ outcome'.op \in LobjOps)

\* C21: once close() has ended on a _LargeObject, every read, write, seek,
\* tell and close on it raises (AttributeError, as its connection is None)
\* and sends nothing to the server.
C21_ClosedHandleFails ==
    [][(LobjCalled /\ Val(lobj).closed) =>
         /\ op' = "none"
         /\ outcome'.op \in LobjOps
         /\ outcome'.kind = "raise" /\ outcome'.exc = "AttributeError"
         /\ sent' = << >>]_vars

\* read was called on the _LargeObject after its close sent lo_close, and
\* raised without sending
C21_ReadAfterClose ==
    /\ ~IsNone(lobj) /\ Val(lobj).closed /\ Val(lobj).closes = 1
    /\ op = "none" /\ outcome.op = "lobj_read" /\ outcome.kind = "raise"
    /\ sent = << >>

\* the messages of lo_open's two function calls, as the catalog funcs names
\* them: lo_open(oid, mode), then lo_lseek(fd, 0, SEEK_SET)
OpenCall(funcs, a) ==
    FuncallSends(funcs[Some(LoName.open)], << IntArg(a[1]), IntArg(a[2]) >>)
SeekCall(funcs, fd) ==
    FuncallSends(funcs[Some(LoName.lseek)],
                 << IntArg(fd), IntArg(0), IntArg(SEEK_SET) >>)

\* C22: lo_open returns a handle positioned at offset 0: what it has sent
\* when it returns ends with the lo_open function call followed by the
\* lo_lseek function call with (fd, 0, SEEK_SET) on the descriptor of the
\* handle it returns; lo_lseek is sent only once lo_open's call has run to
\* its ready marker; and when lo_open raises no handle reaches the caller.
C22_OpenThenSeek ==
    [][/\ (op = "lo_open" /\ op' = "none" /\ outcome'.kind = "return") =>
            /\ Val(lobj').ref = "caller"
            /\ outcome'.value = Val(lobj').fd
            /\ Len(sent') >= 7
            /\ SubSeq(sent', Len(sent') - 6, Len(sent')) =
                 OpenCall(lo_funcs, callargs)
                   \o SeekCall(lo_funcs, Val(Val(lobj').fd))
       /\ (op = "lo_open" /\ pc # "init" /\ NewSends # << >>) =>
            /\ ready # 0
            /\ NewSends = SeekCall(lo_funcs, Val(Val(lobj).fd))
            /\ Len(sent) >= 3
            /\ SubSeq(sent, Len(sent) - 2, Len(sent)) =
                 OpenCall(lo_funcs, callargs)
       /\ (op' = "none" /\ outcome'.op = "lo_open" /\ outcome'.kind = "raise") =>
            (IsNone(lobj') \/ Val(lobj').ref # "caller")]_vars

\* lo_open loaded the catalog, made its two calls and returned the handle
\* of descriptor 7
C22_OpenReturned ==
    /\ op = "none" /\ outcome.op = "lo_open" /\ outcome.kind = "return"
    /\ ~IsNone(lobj) /\ Val(lobj).ref = "caller" /\ Val(lobj).fd = Some(7)
    /\ Len(sent) = 8

\* a string with every quote and every backslash doubled
RECURSIVE Doubled(_)
Doubled(s) ==
    IF s = << >> THEN << >>
    ELSE (IF Head(s) \in {ChQuote, 92} THEN << Head(s), Head(s) >>
          ELSE << Head(s) >>) \o Doubled(Tail(s))

\* the literal the claim gives a parameter
Literal(a) ==
    IF a = ParamNone THEN << 78, 85, 76, 76 >>
    ELSE IF "str" \in DOMAIN a
    THEN << ChQuote >> \o Doubled(a.str) \o << ChQuote >>
    ELSE IF a.num < 0 THEN << 45, 48 - a.num >>
    ELSE << 48 + a.num >>

\* 'S', and ' ' and its literal for each parameter
RECURSIVE Literals(_)
Literals(args) ==
    IF args = << >> THEN << 83 >>
    ELSE Literals(Front(args)) \o << 32 >> \o Literal(Last(args))

\* C23: execute substitutes a string parameter as a single-quoted literal
\* with every embedded quote and backslash doubled, None as NULL, and a
\* number unquoted and unchanged: the query it sends is the statement with
\* these literals in place of its placeholders.
C23_ParamsSubstituted ==
    [][\A args \in ParamLists :
         (op = "none" /\ ExecuteArgs(Statement(Len(args)), Some(args))) =>
           sent' = << << TagQ >> \o Literals(args) \o << 0 >> >>]_vars

\* the step is a call of `name` on the cursor
CursorCalled(name) == cursor'.calls # cursor.calls /\ outcome'.op = name

\* C24: scroll rejects a target outside [0, R) with IndexError and leaves
\* rownumber unchanged, a target equal to R and the target -1 included; a
\* target inside [0, R) becomes rownumber.  The target is rownumber + value
\* for 'relative' and value for 'absolute'.
C24_ScrollBounds ==
    [][\A value \in (0 - MaxRows - 1)..(MaxRows + 1) :
         \A mode \in {"relative", "absolute"} :
           (HasResult(cursor) /\ CursorScroll(value, mode)) =>
             LET R == cursor.rowcount
                 target == IF mode = "relative"
                           THEN Val(cursor.rownumber) + value ELSE value
             IN  /\ CursorCalled("scroll")
                 /\ IF target \in 0..(R - 1)
                    THEN /\ outcome'.kind = "return"
                         /\ cursor'.rownumber = Some(target)
                    ELSE /\ outcome'.kind = "raise"
                         /\ outcome'.exc = "IndexError"
                         /\ cursor'.rownumber = cursor.rownumber]_vars

\* a scroll was rejected on the third of three rows
C24_ScrollRejected ==
    /\ outcome.op = "scroll" /\ outcome.exc = "IndexError"
    /\ cursor.rowcount = 3 /\ cursor.rownumber = Some(2)

\* the cursor has not executed anything, or has been closed
Unused(c) == ~c.executed \/ ~c.connection

NoResult(c) ==
    c.description = None /\ c.rowcount = -1 /\ c.rownumber = None

\* C25: a cursor that has not executed anything or has been closed has
\* description None, rowcount -1 and rownumber None, and fetchone,
\* fetchmany, fetchall and next on it raise Error; close sets connection to
\* None.
C25_UnusedCursor ==
    [][/\ Unused(cursor) => NoResult(cursor)
       /\ Unused(cursor') => NoResult(cursor')
       /\ (Unused(cursor) /\ \E name \in {"fetchone", "fetchmany", "fetchall",
                                           "next"} : CursorCalled(name)) =>
            outcome'.kind = "raise" /\ outcome'.exc = "Error"
       /\ CursorCalled("close") => ~cursor'.connection]_vars

\* fetchall raised on a cursor that was closed after its execute
C25_FetchAfterClose ==
    /\ outcome.op = "fetchall" /\ outcome.exc = "Error"
    /\ cursor.executed /\ ~cursor.connection

\* C26: when execute returns a first block of R rows, rownumber is 0 and
\* rowcount is R; fetchone before the end returns the row at rownumber and
\* advances rownumber by one; at rownumber R fetchone returns None, and
\* fetchmany and fetchall an empty list, without raising or moving.
C26_FetchForward ==
    [][/\ (op = "execute" /\ pc = "bind" /\ outcome'.kind = "return"
           /\ Len(Val(result)) >= 2 /\ HasKey(Val(result)[1], "rows")) =>
            /\ cursor'.rownumber = Some(0)
            /\ cursor'.rowcount = Len(Val(result)[1]["rows"])
            /\ cursor'.rows = Some(Val(result)[1]["rows"])
       /\ (HasResult(cursor) /\ CursorCalled("fetchone")) =>
            LET n == Val(cursor.rownumber) IN
            /\ outcome'.kind = "return"
            /\ IF n < cursor.rowcount
               THEN /\ outcome'.value = Some(Val(cursor.rows)[n + 1])
                    /\ cursor'.rownumber = Some(n + 1)
               ELSE /\ outcome'.value = None
                    /\ cursor'.rownumber = cursor.rownumber
       /\ (HasResult(cursor) /\ cursor.rownumber = Some(cursor.rowcount)
           /\ (CursorCalled("fetchmany") \/ CursorCalled("fetchall"))) =>
            /\ outcome'.kind = "return"
            /\ outcome'.value = Some(<< >>)
            /\ cursor'.rownumber = cursor.rownumber]_vars

\* fetchone returned None after the last of two rows
C26_PastTheEnd ==
    /\ outcome.op = "fetchone" /\ outcome.kind = "return"
    /\ outcome.value = None
    /\ cursor.rowcount = 2 /\ cursor.rownumber = Some(2)

\* the step handles a row message with this tag at the head of the stream
RowStep(tag) ==
    Reading /\ Stream # << >> /\ Head(Stream) = tag /\ Consumed

\* the row the step appended
NewRow == Last(Last(Val(result'))["rows"])

\* how many bytes the step consumed
UsedBytes == Len(Stream) - Len(Stream')

\* ceil(n / 8)
BitmapLen(n) == CHOOSE k \in 0..n : 8 * k >= n /\ 8 * k < n + 8

\* the bit of field i in the bytes after the tag of the message s: the most
\* significant bit of the first byte is field 1
PresenceBit(s, i) ==
    (s[2 + ((i - 1) \div 8)] \div (2 ^ (7 - ((i - 1) % 8)))) % 2

\* the bytes of the fields of a row: four of a prefix and the value for a
\* field that is there, none for a null
RECURSIVE FieldBytes(_)
FieldBytes(row) ==
    IF row = << >> THEN 0
    ELSE (IF IsNone(Head(row)) THEN 0 ELSE 4 + Len(Val(Head(row))))
           + FieldBytes(Tail(row))

\* C27: for a field count N the row decoder reads ceil(N/8) bitmap bytes,
\* takes the most significant bit of the first byte for the first field, and
\* makes a row of N values in which a value is null exactly when its bit is
\* clear; a null consumes no bytes after the bitmap.
C27_RowDecoded ==
    [][\A tag \in {TagD, TagB} :
         RowStep(tag) =>
           LET N == Val(field_count)
               row == NewRow
           IN  /\ Len(row) = N
               /\ \A i \in 1..N : IsNone(row[i]) <=> PresenceBit(Stream, i) = 0
               /\ UsedBytes = 1 + BitmapLen(N) + FieldBytes(row)]_vars

\* a row of 33 fields was decoded, every other one of them null
C27_WideRowDecoded ==
    /\ Truthy(result) /\ HasKey(Val(result)[1], "rows")
    /\ Val(result)[1]["rows"] # << >>
    /\ LET row == Val(result)[1]["rows"][1] IN
       /\ Len(row) = 33
       /\ ~IsNone(row[1]) /\ IsNone(row[2]) /\ ~IsNone(row[33])

\* the fields of a row as the server writes them: every value that is there
\* after a prefix of its length plus `self`
RECURSIVE Prefixed(_, _)
Prefixed(row, self) ==
    IF row = << >> THEN << >>
    ELSE (IF IsNone(Head(row)) THEN << >>
          ELSE Pack_i(Len(Val(Head(row))) + self) \o Val(Head(row)))
           \o Prefixed(Tail(row), self)

\* C28: the value of a field that is there has the length of its prefix
\* less 4 in a text row (D) and the length of its prefix in a binary row
\* (B); the handler appends one row to the open block and consumes the
\* bytes of the row message.
C28_FieldLengths ==
    [][\A tag \in {TagD, TagB} :
         RowStep(tag) =>
           LET blocks == Val(result)
               at == 1 + BitmapLen(Val(field_count))
           IN  /\ SubSeq(Stream, at + 1, UsedBytes)
                    = Prefixed(NewRow, IF tag = TagD THEN 4 ELSE 0)
               /\ Stream' = Drop(Stream, UsedBytes)
               /\ Len(Val(result')) = Len(blocks)
               /\ Len(Last(Val(result'))["rows"])
                    = Len(Last(blocks)["rows"]) + 1
               /\ op' = op /\ outcome' = outcome]_vars

\* the binary rows of the statement after the error were decoded
C28_BinaryRowsDecoded ==
    /\ ~IsNone(result) /\ Len(Val(result)) >= 3
    /\ HasKey(Val(result)[3], "rows")
    /\ Val(result)[3]["rows"] = << << None >>, << Some(<< 50 >>) >> >>

\* C29: within one execute a row is appended to the block that is open, the
\* last one, behind the rows it holds; a completion or an error closes the
\* last block and opens a new last one; the blocks that are closed are never
\* changed, and execute returns them in this order.
C29_ArrivalOrder ==
    [][(op = "execute" /\ ~IsNone(result)) =>
         LET blocks == Val(result) IN
         /\ ~IsNone(result') =>
              /\ Len(Val(result')) >= Len(blocks)
              /\ Take(Val(result'), Len(blocks) - 1) = Front(blocks)
         /\ \A tag \in {TagD, TagB} :
              RowStep(tag) =>
                Val(result') = Front(blocks) \o
                  << SetKey(Last(blocks), "rows",
                            Append(Last(blocks)["rows"], NewRow)) >>
         /\ \A tag \in {TagC, TagE} :
              (Reading /\ Stream # << >> /\ Head(Stream) = tag /\ Consumed) =>
                Val(result') = Front(blocks) \o
                  << SetKey(Last(blocks),
                            IF tag = TagC THEN "completed" ELSE "error",
                            Read_str(Payload).str),
                     EmptyDict >>
         /\ (op' = "none" /\ outcome'.kind = "return") =>
              outcome'.value = Front(blocks)]_vars

\* execute returned two blocks, the first with its two rows in their order
C29_TwoBlocksReturned ==
    /\ outcome.op = "execute" /\ outcome.kind = "return"
    /\ Len(outcome.value) = 2
    /\ outcome.value[1]["rows"] = << << Some(<< 49 >>) >>, << Some(<< 50 >>) >> >>
    /\ outcome.value[2]["rows"] = << << Some(<< 51 >>), None >> >>

\* the tags that have a handler: A B C D E G H I K N P R T V Z
HandlerTags == {65, 66, 67, 68, 69, 71, 72, 73, 75, 78, 80, 82, 84, 86, 90}

\* the step is one of the client, reading with this byte before it
TagStep(b) ==
    /\ Reading /\ Stream # << >> /\ Head(Stream) = b
    /\ << client, caller >>' # << client, caller >>

\* C30: for a tag byte without a handler the dispatcher raises
\* InterfaceError, consumes the tag and nothing after it, and changes no
\* other state of the connection; a tag with a handler is not refused.
C30_UnknownTagRefused ==
    [][\A b \in 0..255 :
         TagStep(b) =>
           IF b \in HandlerTags
           THEN outcome'.exc # "InterfaceError"
           ELSE /\ outcome'.kind = "raise"
                /\ outcome'.exc = "InterfaceError"
                /\ outcome'.args.data = << b >>
                /\ Stream' = Tail(Stream)
                /\ UNCHANGED << socket, address, authenticated, ready, result,
                                notify_queue, func_result, field_count,
                                backend_key, passwd, userid, lo_funcs, stdin,
                                stdout, sent >>]_vars

\* the byte 'a' was refused after a completed statement, and the two bytes
\* after it are still to be read
C30_LowerCaseRefused ==
    /\ outcome.exc = "InterfaceError" /\ outcome.args.data = << 97 >>
    /\ Truthy(result) /\ Len(Val(result)) = 2
    /\ Stream \o srvPending = << 7, 90 >>

\* the bytes the client has not consumed: in its buffer, at its socket, and
\* on their way
Unconsumed == input_buffer \o wire \o srvPending

\* the step ends a read by returning
ReadReturns(name) == op = name /\ op' = "none" /\ outcome'.kind = "return"

\* C31: however the stream is split into chunks, a read of n bytes returns
\* the next n unconsumed bytes, a read of a string returns the bytes before
\* the first terminator and discards the terminator, and no other step of a
\* read loses, repeats or reorders a byte.
C31_ChunkingIndependent ==
    [][/\ ReadReturns("read_bytes") =>
            /\ outcome'.value = Some(Take(Unconsumed, callargs[1]))
            /\ Unconsumed' = Drop(Unconsumed, callargs[1])
       /\ ReadReturns("read_string") =>
            \E i \in 1..Len(Unconsumed) :
              /\ Unconsumed[i] = callargs[1]
              /\ \A j \in 1..(i - 1) : Unconsumed[j] # callargs[1]
              /\ outcome'.value = Some(Take(Unconsumed, i - 1))
              /\ Unconsumed' = Drop(Unconsumed, i)
       /\ (~ReadReturns("read_bytes") /\ ~ReadReturns("read_string")
           /\ peerClosed' = peerClosed) =>
            Unconsumed' = Unconsumed]_vars

\* the second read returned a string of two bytes, and a byte is left
C31_SecondReadReturned ==
    /\ nops = 2 /\ outcome.op = "read_string" /\ outcome.kind = "return"
    /\ outcome.value = Some(<< 0, 0 >>)
    /\ input_buffer = << >> /\ wire = << 65 >>

\* the client takes a step while this method is reading, the peer has
\* closed, and what has arrived is not a whole message (or not the bytes or
\* the terminator the read is for)
ReadCutShort ==
    /\ peerClosed
    /\ << client, caller >>' # << client, caller >>
    /\ \/ Reading /\ (Stream = << >> \/ ~Frame.ok)
       \/ op = "read_bytes" /\ Len(Stream) < callargs[1]
       \/ op = "read_string"
            /\ \A i \in 1..Len(Stream) : Stream[i] # callargs[1]

\* C32: when the peer has closed before a read has its bytes or its
\* terminator, the read fails with OperationalError and returns nothing; the
\* error leaves connect, execute, funcall or wait_for_notify, and nothing is
\* sent and no connection is made again.  (A read by itself first takes
\* what had arrived before the peer closed.)
C32_PeerCloseRaises ==
    [][ReadCutShort =>
         \/ /\ op \in {"read_bytes", "read_string"} /\ wire # << >>
            /\ op' = op /\ outcome' = outcome
            /\ socket' = socket /\ address' = address /\ sent' = sent
         \/ /\ op' = "none"
            /\ outcome'.op = op /\ outcome'.kind = "raise"
            /\ outcome'.exc = "OperationalError"
            /\ outcome'.value = None
            /\ socket' = socket /\ address' = address /\ sent' = sent]_vars

\* wait_for_notify raised OperationalError in the middle of a notification
C32_WaitCutShort ==
    /\ outcome.op = "wait_for_notify" /\ outcome.exc = "OperationalError"
    /\ peerClosed /\ input_buffer # << >>

\* the byte strings of a sequence, one after the other
RECURSIVE Flat(_)
Flat(ss) == IF ss = << >> THEN << >> ELSE Head(ss) \o Flat(Tail(ss))

\* C33: under partial writes the bytes the socket takes make up the data
\* given to __send, in order, none dropped and none sent twice, and __send
\* returns only when nothing is left.
C33_AllSent ==
    [][/\ \A data \in ByteStrings(MaxStream) :
            (op = "none" /\ SendCall(data)) =>
              Flat(sent') \o callargs'[1] = data
       /\ op = "send" =>
            /\ Flat(sent') \o callargs'[1] = Flat(sent) \o callargs[1]
            /\ \A i \in 1..Len(sent') : sent'[i] # << >>
            /\ op' = "none" =>
                 /\ outcome'.kind = "return"
                 /\ callargs[1] = << >>]_vars

\* __send returned after the socket took four bytes one, two and one at a
\* time
C33_SentInThree ==
    /\ outcome.op = "send" /\ outcome.kind = "return"
    /\ sent = << << 65 >>, << 0, 65 >>, << 0 >> >>

\* what a V message gives, read from the bytes s after its tag by position:
\* at a sub-tag 'G' the four bytes of a length and that many bytes of a
\* value, at '0' the end, at another byte an error.  kind is "value",
\* "none", "bad" or "short" (the message is not whole)
RECURSIVE ValueOf(_, _)
ValueOf(s, last) ==
    IF s = << >> THEN [kind |-> "short", value |-> None, size |-> 0]
    ELSE IF Head(s) = 48
    THEN [kind |-> IF IsNone(last) THEN "none" ELSE "value", value |-> last,
          size |-> 1]
    ELSE IF Head(s) # 71 THEN [kind |-> "bad", value |-> last, size |-> 1]
    ELSE IF Len(s) < 5 \/ Len(s) < 5 + Unpack_i(SubSeq(s, 2, 5))
    THEN [kind |-> "short", value |-> None, size |-> 0]
    ELSE LET n == Unpack_i(SubSeq(s, 2, 5))
             r == ValueOf(Drop(s, 5 + n), Some(SubSeq(s, 6, 5 + n)))
         IN  [kind |-> r.kind, value |-> r.value, size |-> 5 + n + r.size]

\* C34: a V message with the sub-tag 'G' gives a value of as many bytes as
\* the length after it says, one whose first sub-tag is '0' gives no value,
\* another sub-tag raises InterfaceError; within funcall the stored value
\* changes only when a V message is dispatched, and funcall returns it.
C34_FunctionResult ==
    [][/\ (Reading /\ Stream # << >> /\ Head(Stream) = TagV
           /\ << client, caller >>' # << client, caller >>
           /\ ValueOf(Payload, None).kind # "short") =>
            LET v == ValueOf(Payload, None) IN
            /\ Stream' = Drop(Stream, 1 + v.size)
            /\ IF v.kind = "bad"
               THEN outcome'.kind = "raise" /\ outcome'.exc = "InterfaceError"
               ELSE /\ func_result' = v.value
                    /\ op' = op /\ outcome' = outcome
                    /\ v.kind = "none" <=> Payload[1] = 48
       /\ (op = "funcall" /\ op' = "funcall"
           /\ ~(Stream # << >> /\ Head(Stream) = TagV)) =>
            func_result' = func_result
       /\ (op = "funcall" /\ op' = "none" /\ outcome'.kind = "return") =>
            outcome'.value = func_result]_vars

\* funcall returned the second of two values of one V message
C34_SecondValueReturned ==
    /\ outcome.op = "funcall" /\ outcome.kind = "return"
    /\ outcome.value = Some(<< 5, 6 >>)

\* C35: when an execute or funcall has ended, by returning or by raising
\* the error the server reported, the server has written the response to
\* each request so far and the client has consumed all of it, its ready
\* marker included: nothing of an earlier request is left for the next one.
C35_OwnReadyConsumed ==
    (/\ op = "none" /\ outcome.op \in {"execute", "funcall"}
     /\ \/ outcome.kind = "return"
        \/ outcome.kind = "raise" /\ outcome.exc = "DatabaseError")
        => (nsent = nops /\ Unconsumed = << >>)

\* C36: while no execute is running the connection holds no list of result
\* blocks.
C36_NoLeftoverBlocks == (op # "execute") => IsNone(result)

\* C38: while no funcall is running the stored function result is None.
C38_NoStaleValue == (op # "funcall") => IsNone(func_result)

\* the block was closed by a completion or by an error, not by both
Closed(block) == HasKey(block, "completed") # HasKey(block, "error")

\* C37: execute starts with one open block; while it runs, each C and each
\* E message dispatched adds one block and no other step adds or drops one;
\* every block but the last carries a completion tag or an error and not
\* both, the last carries neither; execute returns all blocks but the last.
\* So it returns as many blocks as C and E messages were dispatched.
C37_BlocksClosed ==
    [][/\ (op # "execute" /\ op' = "execute") => Len(Val(result')) = 1
       /\ (op = "execute" /\ op' = "execute") =>
            Len(Val(result')) = Len(Val(result))
                + (IF Dispatches(TagC) \/ Dispatches(TagE) THEN 1 ELSE 0)
       /\ (op' = "execute") =>
            LET blocks == Val(result') IN
            /\ \A i \in 1..(Len(blocks) - 1) : Closed(blocks[i])
            /\ ~HasKey(blocks[Len(blocks)], "completed")
            /\ ~HasKey(blocks[Len(blocks)], "error")
       /\ (op = "execute" /\ op' = "none" /\ outcome'.kind = "return") =>
            /\ Len(outcome'.value) = Len(Val(result)) - 1
            /\ \A i \in 1..Len(outcome'.value) :
                 /\ outcome'.value[i] = Val(result)[i]
                 /\ Closed(outcome'.value[i])]_vars

\* execute returned a block with a completion tag and one with an error
C37_CompletionAndError ==
    /\ outcome.op = "execute" /\ outcome.kind = "return"
    /\ Len(outcome.value) = 2
    /\ HasKey(outcome.value[1], "completed")
    /\ HasKey(outcome.value[2], "error")

\* the rows of the block have as many fields as its descriptor has columns
RowsAsDescribed(block) ==
    (HasKey(block, "rows") /\ block["rows"] # << >>) =>
        /\ HasKey(block, "description")
        /\ \A i \in 1..Len(block["rows"]) :
             Len(block["rows"][i]) = Len(block["description"])

Open(statements) ==
    LET marks == { i \in 1..Len(statements) :
                     Operation(statements[i].stmt) \in TRANSACTION_OPS }
    IN  /\ marks # { }
        /\ Operation(statements[CHOOSE i \in marks : \A j \in marks : j <= i]
                       .stmt) = << 98, 101, 103, 105, 110 >>

\* C40: the wrapper sends its own BEGIN only while no transaction is open
\* at the server, and its forced COMMIT only while one is open.
C40_Balanced ==
    \A i \in 1..Len(wrapper.statements) :
        LET before == SubSeq(wrapper.statements, 1, i - 1) IN
        /\ wrapper.statements[i].why = "implicit" => ~Open(before)
        /\ wrapper.statements[i].why = "forced" => Open(before)


=============================================================================
